---- MODULE Spec2Model ----
(***************************************************************************)
(* Model of the timeline layout and interaction engine of the Gantt chart  *)
(* (src/src/index.ts, src/src/bar.ts).                                     *)
(*                                                                         *)
(* Dates are whole calendar days counted from an epoch (every modelled     *)
(* input is a date-only value, evaluated in the UTC zone), pixels are      *)
(* integers.  JavaScript arrays are sequences; a zero-based JavaScript     *)
(* index i addresses element i+1 of the sequence.                          *)
(***************************************************************************)
EXTENDS Integers, Sequences, FiniteSets, TLC

(***************************************************************************)
(* Bounds of the model                                                     *)
(***************************************************************************)
\* largest raw pointer coordinate (pixels) delivered by a pointer event
MaxMouseX == 12
\* largest number of pointer-downs in one behaviour
MaxGestures == 1
\* largest distance between the pointer and the centre of a grabbed handle
MaxGrab == 1
\* largest number of tasks in an input of load / refresh
MaxTasks == 3
\* longest dependency list of a task of the dependency-closure inputs
MaxDeps == 2
\* largest number of passes of the dependency-closure loop that are followed
MaxPasses == 7
\* largest raw delta / origin given to the snap function, in columns
MaxCells == 4
\* longest dependency string of an input task
MaxChars == 3
\* latest start day and longest span (days) of a task whose duration is
\* computed
MaxStart == 6
MaxSpan == 10
\* the gestures and the pointer positions of the double-click machine
MaxSettleGestures == 2
MinSettleX == 2
MaxSettleX == 6

(***************************************************************************)
(* Values standing for JavaScript's undefined                              *)
(***************************************************************************)
Undefined == "undefined"
\* the number NaN: every comparison with it is false and every sum or
\* product with it is NaN
NaN == -1000000
NoDate == -1
\* an absent duration string
NoDuration == [n |-> 0, u |-> Undefined]

(***************************************************************************)
(* Date/unit arithmetic (date_utils)                                       *)
(***************************************************************************)
DaysPerYear == 365

Year(d) == d \div DaysPerYear

\* date_utils.diff(a, b, 'year'): whole-unit comparison
diff_year(a, b) == Year(a) - Year(b)

\* date_utils.diff(a, b, 'day')
diff_day(a, b) == a - b

\* date_utils.add(date, qty, 'day'); qty is truncated as by parseInt
Trunc(n, d) == IF n >= 0 THEN n \div d ELSE -((-n) \div d)

add_days(date, qty) == date + qty

\* hours in one unit of a scale
InHours(scale) ==
    CASE scale = "hour" -> 1
      [] scale = "day" -> 24
      [] scale = "week" -> 168

\* date_utils.parse_duration("<n><letter>"); a string that does not parse
\* gives undefined, here a record whose scale is Undefined
parse_duration(s) ==
    CASE s.u = "h" -> [duration |-> s.n, scale |-> "hour"]
      [] s.u = "d" -> [duration |-> s.n, scale |-> "day"]
      [] s.u = "w" -> [duration |-> s.n, scale |-> "week"]
      [] OTHER -> [duration |-> 0, scale |-> Undefined]

\* date_utils.convert_scales(period, to_scale)
convert_scales(period, to_scale) ==
    LET p == parse_duration(period)
    IN  (p.duration * InHours(p.scale)) \div InHours(to_scale)

(***************************************************************************)
(* Sequence helpers (Array.prototype.map / filter / find / concat)         *)
(***************************************************************************)
Range(s) == {s[i] : i \in DOMAIN s}

RECURSIVE FilterOut(_, _)
FilterOut(s, drop) ==
    IF s = <<>> THEN <<>>
    ELSE (IF Head(s) \in drop THEN <<>> ELSE <<Head(s)>>) \o FilterOut(Tail(s), drop)

RECURSIVE Flatten(_)
Flatten(ss) == IF ss = <<>> THEN <<>> ELSE Head(ss) \o Flatten(Tail(ss))

Count(s, v) == Cardinality({i \in DOMAIN s : s[i] = v})


(***************************************************************************)
(* Pixel arithmetic.  Progress widths are fractions of a pixel             *)
(* (width * progress / 100), so every pixel quantity of the model is kept  *)
(* in hundredths of a pixel: a length of p pixels is the integer p * Px.   *)
(***************************************************************************)
Px == 100

\* JavaScript's % (the sign follows the dividend)
JsRem(a, b) == IF a >= 0 THEN a % b ELSE -((-a) % b)

(***************************************************************************)
(* Task ids                                                                *)
(***************************************************************************)
Ids == {"A", "B", "C", "D"}
\* an id that names no task
UnknownId == "Z"

(***************************************************************************)
(* Gantt.setup_tasks                                                       *)
(***************************************************************************)
\* date_utils.add(date, qty, scale) for the scales a task duration uses
add(date, qty, scale) ==
    CASE scale = "day" -> add_days(date, qty)
      [] scale = "week" -> add_days(date, 7 * qty)
      [] OTHER -> date

\* A dependency string is the sequence of its characters.
\* String.prototype.split(','): the pieces between the separators
RECURSIVE split(_, _)
split(s, sep) ==
    IF \A i \in DOMAIN s : s[i] # sep THEN <<s>>
    ELSE LET i == CHOOSE k \in DOMAIN s :
                    s[k] = sep /\ \A j \in 1..(k - 1) : s[j] # sep
         IN  <<SubSeq(s, 1, i - 1)>> \o split(SubSeq(s, i + 1, Len(s)), sep)

\* String.prototype.trim
RECURSIVE trim(_)
trim(s) ==
    IF s = <<>> THEN s
    ELSE IF Head(s) = " " THEN trim(Tail(s))
    ELSE IF s[Len(s)] = " " THEN trim(SubSeq(s, 1, Len(s) - 1))
    ELSE s

\* replace(/ /g, '_')
replace_spaces(s) == [i \in DOMAIN s |-> IF s[i] = " " THEN "_" ELSE s[i]]

\* the string of a sequence of characters
RECURSIVE StringOf(_)
StringOf(s) == IF s = <<>> THEN "" ELSE Head(s) \o StringOf(Tail(s))

\* a variant of the dependency parser that does not trim the pieces
parse_dependencies_untrimmed(chars) ==
    LET pieces == split(chars, ",")
        ids == [k \in DOMAIN pieces |-> StringOf(replace_spaces(pieces[k]))]
    IN  FilterOut(ids, {""})

\* task.dependencies.split(',').map(d => d.trim().replace(/ /g, '_'))
\*     .filter(d => d)
parse_dependencies(chars) ==
    LET pieces == split(chars, ",")
        ids == [k \in DOMAIN pieces |-> StringOf(replace_spaces(trim(pieces[k])))]
    IN  FilterOut(ids, {""})

\* task.dependencies after the dependencies step of setup_tasks
normal_dependencies(task) ==
    CASE task.typeof_dependencies = "string" -> parse_dependencies(task.dependencies)
      [] task.typeof_dependencies = "undefined" -> <<>>
      [] OTHER -> task.dependencies

\* the characters of an id the caller wrote
Spelling(id) ==
    CASE id = "A B" -> <<"A", " ", "B">>
      [] id = "A_B" -> <<"A", "_", "B">>
      [] OTHER -> <<id>>

\* generate_id(task) for the task at index i of the input: the name (the
\* inputs have none), '_' and ten random characters, which are taken to
\* differ from call to call
generate_id(task, i) == "undefined_" \o ToString(i)

\* the id setup_tasks gives the task at index i: generated when the input
\* has none, else with its spaces replaced
normal_id(task, i) ==
    IF task.id = Undefined THEN generate_id(task, i)
    ELSE StringOf(replace_spaces(Spelling(task.id)))

\* the validation and normalisation of one input task; i is its index in
\* the input array.  The result is <<task>>, or <<>> for a rejected task
\* (the callback returns undefined).
setup_task(task, i) ==
    IF task.start = NoDate THEN <<>>
    ELSE
    LET s == task.start
        parsed == parse_duration(task.duration)
        end == IF task.end = NoDate /\ task.duration # NoDuration
               THEN (IF parsed.scale = Undefined THEN s
                     ELSE add(s, parsed.duration, parsed.scale))
               ELSE task.end
    IN  IF end = NoDate THEN <<>>
        ELSE IF diff_year(end, s) < 0 THEN <<>>
        ELSE IF diff_year(end, s) > 10 THEN <<>>
        ELSE << [task EXCEPT !.end = end,
                             !._start = s,
                             \* a date-only end: the last day is a full day
                             !._end = add_days(end, 1),
                             !._index = i,
                             !.dependencies = normal_dependencies(task),
                             !.typeof_dependencies = "object",
                             !.id = normal_id(task, i)] >>

RECURSIVE setup_tasks_from(_, _)
setup_tasks_from(tasks, i) ==
    IF tasks = <<>> THEN <<>>
    ELSE setup_task(Head(tasks), i) \o setup_tasks_from(Tail(tasks), i + 1)

setup_tasks(tasks) == setup_tasks_from(tasks, 0)

(***************************************************************************)
(* Gantt.setup_dependencies                                                *)
(***************************************************************************)
\* the ids pushed on dependency_map[d] while task t is visited
PushedBy(t, d) == [k \in 1..Count(t.dependencies, d) |-> t.id]

\* dependency_map; a key that was never created (undefined) is <<>>: a
\* created key holds at least one id
setup_dependencies(tasks) ==
    [d \in Ids \cup {UnknownId, Undefined}
            \cup UNION {Range(tasks[i].dependencies) : i \in DOMAIN tasks} |->
        Flatten([i \in 1..Len(tasks) |-> PushedBy(tasks[i], d)])]

(***************************************************************************)
(* Gantt.get_task / Gantt.get_bar: Array.prototype.find                    *)
(***************************************************************************)
\* position of the first task with this id, 0 when there is none
get_task(tasks, id) ==
    IF \E i \in DOMAIN tasks : tasks[i].id = id
    THEN CHOOSE i \in DOMAIN tasks :
            /\ tasks[i].id = id
            /\ \A j \in 1..(i - 1) : tasks[j].id # id
    ELSE 0

\* position of the first bar whose task has this id, 0 when there is none
\* a variant of get_bar that goes through the task's cached _index
get_bar_by_index(bars, tasks, id) ==
    IF get_task(tasks, id) = 0 THEN 0
    ELSE tasks[get_task(tasks, id)]._index + 1

get_bar(bars, tasks, id) ==
    IF \E i \in DOMAIN bars : tasks[bars[i].task].id = id
    THEN CHOOSE i \in DOMAIN bars :
            /\ tasks[bars[i].task].id = id
            /\ \A j \in 1..(i - 1) : tasks[bars[j].task].id # id
    ELSE 0


(***************************************************************************)
(* Gantt.update_view_scale, Gantt.setup_gantt_dates                        *)
(***************************************************************************)
\* the day new Date() falls on
Today == 3

\* getDay() of a day; day 0 of the model is a Monday
DayOfWeek(d) == (d + 1) % 7

\* a variant of update_view_scale that takes the column width of the mode
\* first
update_view_scale_of_mode(options, mode) ==
    LET parsed == parse_duration(mode.step)
    IN  [ignored_dates |-> options.ignore.dates,
         weekend |-> options.ignore.weekend,
         throws |-> options.ignore.throws,
         ignored_positions |-> <<>>,
         step |-> parsed.duration,
         unit |-> parsed.scale,
         column_width |-> IF mode.column_width # 0 THEN mode.column_width
                          ELSE IF options.column_width # 0 THEN options.column_width
                          ELSE 45 * Px,
         header_height |->
            (IF options.lower_header_height # 0
             THEN options.lower_header_height ELSE 30 * Px)
            + (IF options.upper_header_height # 0
               THEN options.upper_header_height ELSE 45 * Px)
            + 10 * Px]

\* config after setup_options and update_view_scale; ignore is the pair
\* of explicit dates and the weekend shortcut of options.ignore
update_view_scale(options, mode) ==
    LET parsed == parse_duration(mode.step)
    IN  [ignored_dates |-> options.ignore.dates,
         weekend |-> options.ignore.weekend,
         throws |-> options.ignore.throws,
         ignored_positions |-> <<>>,
         step |-> parsed.duration,
         unit |-> parsed.scale,
         column_width |-> IF options.column_width # 0 THEN options.column_width
                          ELSE IF mode.column_width # 0 THEN mode.column_width
                          ELSE 45 * Px,
         header_height |->
            (IF options.lower_header_height # 0
             THEN options.lower_header_height ELSE 30 * Px)
            + (IF options.upper_header_height # 0
               THEN options.upper_header_height ELSE 45 * Px)
            + 10 * Px]

MinOf(S) == CHOOSE m \in S : \A k \in S : m <= k
MaxOf(S) == CHOOSE m \in S : \A k \in S : m >= k

\* gantt_start and gantt_end for the tasks returned by setup_tasks and a
\* view mode whose padding is one duration string (no infinite padding)
setup_gantt_dates(tasks, mode) ==
    LET first == IF tasks = <<>> THEN Today
                 ELSE MinOf({tasks[i]._start : i \in DOMAIN tasks})
        last == IF tasks = <<>> THEN Today
                ELSE MaxOf({tasks[i]._end : i \in DOMAIN tasks})
        padding == parse_duration(mode.padding)
    IN  [gantt_start |-> add(first, -padding.duration, padding.scale),
         gantt_end |-> add(last, padding.duration, padding.scale)]

(***************************************************************************)
(* Ignored days and positions: Gantt.make_grid_highlights,                 *)
(* Gantt.get_ignored_region                                                *)
(***************************************************************************)
\* the test both make_grid_highlights and compute_duration apply to a day
IsIgnored(d, config) ==
    \/ d \in config.ignored_dates
    \/ config.weekend /\ (DayOfWeek(d) = 6 \/ DayOfWeek(d) = 0)

\* pixel position of day d
\* ignored_function(d) is called, for a day that is not in ignored_dates,
\* and raises an exception
PredicateThrows(d, config) ==
    d \notin config.ignored_dates /\ d \in config.throws

\* the loop of make_grid_highlights reaches a day whose test raises
HighlightsThrow(gantt_start, gantt_end, config) ==
    \E d \in gantt_start..gantt_end : PredicateThrows(d, config)

\* the loop of compute_duration reaches a day whose test raises
DurationThrows(task, config) ==
    \E d \in task._start..(task._end - 1) : PredicateThrows(d, config)

PositionOf(d, gantt_start, config) ==
    (convert_scales([n |-> diff_day(d, gantt_start), u |-> "d"], config.unit)
        * config.column_width) \div config.step

RECURSIVE make_grid_highlights_from(_, _, _, _)
make_grid_highlights_from(d, gantt_start, gantt_end, config) ==
    \* the exception leaves the positions pushed so far
    IF d > gantt_end \/ PredicateThrows(d, config) THEN <<>>
    ELSE (IF IsIgnored(d, config)
          THEN <<PositionOf(d, gantt_start, config)>> ELSE <<>>)
         \o make_grid_highlights_from(d + 1, gantt_start, gantt_end, config)

\* config.ignored_positions after make_grid_highlights
make_grid_highlights(gantt_start, gantt_end, config) ==
    make_grid_highlights_from(gantt_start, gantt_start, gantt_end, config)

\* the entries of ignored_positions whose column holds pos, as a sequence
RECURSIVE get_ignored_region_of(_, _, _, _)
get_ignored_region_of(positions, column_width, pos, drn) ==
    IF positions = <<>> THEN <<>>
    ELSE LET val == Head(positions)
             hit == IF drn = 1
                    THEN pos > val /\ pos <= val + column_width
                    ELSE pos >= val /\ pos < val + column_width
         IN  (IF hit THEN <<val>> ELSE <<>>)
             \o get_ignored_region_of(Tail(positions), column_width, pos, drn)

get_ignored_region(config, pos, drn) ==
    get_ignored_region_of(config.ignored_positions, config.column_width, pos, drn)


(***************************************************************************)
(* Bar geometry: Bar.prepare_values, compute_x, compute_duration,          *)
(* calculate_progress_width                                                *)
(***************************************************************************)
\* date_utils.diff(a, b, scale) for the units of the modelled view modes
diff(a, b, scale) ==
    CASE scale = "day" -> diff_day(a, b)
      [] scale = "hour" -> 24 * diff_day(a, b)
      [] scale = "year" -> diff_year(a, b)

\* a variant of compute_x that measures from day 0, not from the chart start
compute_x_from_epoch(task, gantt_start, config) ==
    (diff(task._start, 0, config.unit) * config.column_width)
        \div config.step

\* Bar.compute_x
compute_x(task, gantt_start, config) ==
    (diff(task._start, gantt_start, config.unit) * config.column_width)
        \div config.step

\* a variant of compute_duration whose walk includes the day of _end
compute_duration_inclusive(task, config) ==
    LET walked == {d \in task._start..task._end : TRUE}
        actual == {d \in walked : ~IsIgnored(d, config)}
        duration_in_days == Cardinality(walked)
        actual_duration_in_days == Cardinality(actual)
        duration == convert_scales([n |-> duration_in_days, u |-> "d"],
                                   config.unit) \div config.step
        actual_raw == convert_scales([n |-> actual_duration_in_days, u |-> "d"],
                                     config.unit) \div config.step
    IN  [actual_duration |-> actual_duration_in_days,
         ignored_duration |-> duration_in_days - actual_duration_in_days,
         duration |-> duration,
         actual_duration_raw |-> actual_raw,
         ignored_duration_raw |-> duration - actual_raw]

\* Bar.compute_duration: the walk over the days d of [_start, _end)
compute_duration(task, config) ==
    LET walked == {d \in task._start..(task._end - 1) : TRUE}
        actual == {d \in walked : ~IsIgnored(d, config)}
        duration_in_days == Cardinality(walked)
        actual_duration_in_days == Cardinality(actual)
        duration == convert_scales([n |-> duration_in_days, u |-> "d"],
                                   config.unit) \div config.step
        actual_raw == convert_scales([n |-> actual_duration_in_days, u |-> "d"],
                                     config.unit) \div config.step
    IN  [actual_duration |-> actual_duration_in_days,
         ignored_duration |-> duration_in_days - actual_duration_in_days,
         duration |-> duration,
         actual_duration_raw |-> actual_raw,
         ignored_duration_raw |-> duration - actual_raw]

\* number of entries val of positions with lo <= val < hi
CountIn(positions, lo, hi) ==
    Cardinality({i \in DOMAIN positions : positions[i] >= lo /\ positions[i] < hi})

RECURSIVE SkipIgnored(_, _, _)
\* the while loop of calculate_progress_width
SkipIgnored(config, x, progress_width) ==
    IF get_ignored_region(config, x + progress_width, 1) = <<>>
    THEN progress_width
    ELSE SkipIgnored(config, x, progress_width + config.column_width)

\* Bar.calculate_progress_width for a bar at x whose $bar is width wide
calculate_progress_width(config, x, width, progress) ==
    LET total_ignored_area ==
            CountIn(config.ignored_positions, x, x + width) * config.column_width
        raw == ((width - total_ignored_area) * progress) \div 100
        total_ignored_progress ==
            CountIn(config.ignored_positions, x, x + raw) * config.column_width
    IN  IF progress = NaN THEN NaN
        ELSE SkipIgnored(config, x, raw + total_ignored_progress)

\* the progress value prepare_values leaves on the task
ClampProgress(progress) ==
    IF progress = NaN THEN 0
    ELSE IF progress < 0 THEN 0 ELSE IF progress > 100 THEN 100 ELSE progress

\* a variant of prepare_values that keeps the _start and _end of setup_tasks
prepare_values_keeping_dates(task, config) ==
    LET dur == compute_duration(task, config)
    IN  [task EXCEPT !.progress = ClampProgress(task.progress),
                     !.actual_duration = dur.actual_duration,
                     !.ignored_duration = dur.ignored_duration]

\* the task after Bar.prepare_values (and compute_duration)
\* prepare_values: task._start and task._end
Dated(task) == [task EXCEPT !._start = task.start, !._end = task.end]

prepare_values(task, config) ==
    LET t1 == [task EXCEPT !._start = task.start, !._end = task.end]
        dur == compute_duration(t1, config)
    IN  [t1 EXCEPT !.progress = ClampProgress(task.progress),
                   !.actual_duration = dur.actual_duration,
                   !.ignored_duration = dur.ignored_duration]

\* a variant of compute_y that counts the rows of the working set: pos is
\* the position of the task in gantt.tasks
compute_y_by_position(pos, task, config, options) ==
    config.header_height + options.padding \div 2
        + (pos - 1) * (options.bar_height + options.padding)

\* Bar.compute_y
compute_y(pos, task, config, options) ==
    config.header_height + options.padding \div 2
        + task._index * (options.bar_height + options.padding)

\* new Bar(gantt, task) for the task at position pos of gantt.tasks; task
\* is that task after prepare_values
NewBar(pos, task, gantt_start, config, options) ==
    LET x == compute_x(task, gantt_start, config)
        dur == compute_duration(task, config)
        width == config.column_width * dur.duration
        progress_width == calculate_progress_width(config, x, width, task.progress)
    IN  [task |-> pos,
         x |-> x,
         y |-> compute_y(pos, task, config, options),
         bar_x |-> x,
         bar_w |-> width,
         prog_x |-> x,
         prog_w |-> progress_width,
         duration |-> dur.duration,
         actual_duration_raw |-> dur.actual_duration_raw,
         ignored_duration_raw |-> dur.ignored_duration_raw,
         ox |-> 0, owidth |-> 0, finaldx |-> 0,
         p_owidth |-> 0, p_finaldx |-> 0, min_dx |-> 0, max_dx |-> 0,
         action_completed |-> FALSE,
         timers |-> 0]

(***************************************************************************)
(* Gantt.make_bars, make_arrows, map_arrows_on_bars                        *)
(***************************************************************************)
\* bars[idx] for a zero-based idx: the position of the bar, 0 for undefined
BarAt(bars, idx) == IF idx + 1 \in DOMAIN bars THEN idx + 1 ELSE 0

\* the path of an arrow one of whose bars is undefined
NoPath == [start_x |-> Undefined, end_x |-> Undefined, swapped |-> FALSE]

\* the path of the arrow from bar from_task to bar to_task: from the right
\* edge of the predecessor to the left edge of the successor, the edges
\* swapped when the successor starts before the predecessor ends
route(bars, from_task, to_task) ==
    IF from_task = 0 \/ to_task = 0 THEN NoPath
    ELSE LET from_bar == bars[from_task]
             to_bar == bars[to_task]
         IN  IF to_bar.bar_x < from_bar.bar_x + from_bar.bar_w
             THEN [start_x |-> from_bar.bar_x,
                   end_x |-> to_bar.bar_x + to_bar.bar_w, swapped |-> TRUE]
             ELSE [start_x |-> from_bar.bar_x + from_bar.bar_w,
                   end_x |-> to_bar.bar_x, swapped |-> FALSE]

\* new Arrow(gantt, from_task, to_task): the path is computed on
\* construction
NewArrow(bars, from_task, to_task) ==
    [from_task |-> from_task, to_task |-> to_task,
     path |-> route(bars, from_task, to_task)]

\* the arrows make_arrows builds for one task
ArrowsOf(task, tasks, bars) ==
    LET known == SelectSeq(task.dependencies, LAMBDA d : get_task(tasks, d) # 0)
    IN  [k \in DOMAIN known |->
            NewArrow(bars,
                     BarAt(bars, tasks[get_task(tasks, known[k])]._index),
                     BarAt(bars, task._index))]

make_arrows(tasks, bars) ==
    Flatten([i \in DOMAIN tasks |-> ArrowsOf(tasks[i], tasks, bars)])

\* map_arrows_on_bars reads arrow.from_task.task and, when that is not the
\* bar's task, arrow.to_task.task: it throws on an undefined endpoint
MapArrowsThrows(tasks, bars, arrows) ==
    \E b \in DOMAIN bars : \E a \in DOMAIN arrows :
        \/ arrows[a].from_task = 0
        \/ /\ tasks[bars[arrows[a].from_task].task].id # tasks[bars[b].task].id
           /\ arrows[a].to_task = 0


(***************************************************************************)
(* Loading: Gantt.setup_tasks, change_view_mode and render, as run by the  *)
(* constructor and by Gantt.refresh                                        *)
(***************************************************************************)
\* update_view_scale, setup_dates and render for the tasks t0 of the working
\* set, as change_view_mode runs them once the mode is resolved
Render(t0, options, mode) ==
    LET cfg0 == update_view_scale(options, mode)
        dates == setup_gantt_dates(t0, mode)
        cfg == [cfg0 EXCEPT !.ignored_positions =
                    make_grid_highlights(dates.gantt_start, dates.gantt_end, cfg0)]
        \* make_bars: each Bar runs prepare_values on its own task
        t1 == [i \in DOMAIN t0 |-> prepare_values(t0[i], cfg)]
        bs == [i \in DOMAIN t1 |-> NewBar(i, t1[i], dates.gantt_start, cfg, options)]
        as == make_arrows(t1, bs)
    IN  IF HighlightsThrow(dates.gantt_start, dates.gantt_end, cfg0)
        \* make_grid raises before make_bars: the tasks are not prepared and
        \* this.bars and this.arrows stay what they were (the callers keep
        \* them)
        THEN [tasks |-> t0,
              config |-> cfg,
              gantt_start |-> dates.gantt_start,
              gantt_end |-> dates.gantt_end,
              bars |-> <<>>,
              arrows |-> <<>>,
              thrown |-> "Error"]
        ELSE [tasks |-> t1,
              config |-> cfg,
              gantt_start |-> dates.gantt_start,
              gantt_end |-> dates.gantt_end,
              bars |-> bs,
              arrows |-> as,
              thrown |-> IF MapArrowsThrows(t1, bs, as) THEN "TypeError"
                         ELSE "none"]

\* the chart after setup_tasks gave t0 and the render gave r
LoadOf(t0, r) ==
    [validated |-> t0,
     tasks |-> r.tasks,
     dependency_map |-> setup_dependencies(t0),
     config |-> r.config,
     gantt_start |-> r.gantt_start,
     gantt_end |-> r.gantt_end,
     bars |-> r.bars,
     arrows |-> r.arrows,
     thrown |-> r.thrown]

LoadTasks(t0, options, mode) == LoadOf(t0, Render(t0, options, mode))

Load(input, options, mode) == LoadTasks(setup_tasks(input), options, mode)

(***************************************************************************)
(* Gantt.get_all_dependent_tasks                                           *)
(***************************************************************************)
\* dependency_map[curr] as concat appends it: an undefined entry appends
\* the single value undefined
ConcatOf(map, curr) ==
    IF curr \in DOMAIN map /\ map[curr] # <<>> THEN map[curr] ELSE <<Undefined>>

\* one pass of the while loop over to_process
DepsOf(map, to_process) ==
    Flatten([i \in DOMAIN to_process |-> ConcatOf(map, to_process[i])])

NextToProcess(deps, to_process) == FilterOut(deps, Range(to_process))

\* The loop as a function of (to_process, out).  The next to_process is a
\* function of the current one alone, so the loop runs for ever exactly
\* when a value of to_process comes back; seen holds the values so far.
RECURSIVE DependentLoop(_, _, _, _)
DependentLoop(map, to_process, out, seen) ==
    IF to_process = <<>>
    THEN [diverges |-> FALSE, out |-> FilterOut(out, {Undefined})]
    ELSE IF to_process \in seen
    THEN [diverges |-> TRUE, out |-> <<>>]
    ELSE LET deps == DepsOf(map, to_process)
         IN  DependentLoop(map, NextToProcess(deps, to_process),
                           out \o deps, seen \cup {to_process})

get_all_dependent_tasks(map, task_id) ==
    DependentLoop(map, <<task_id>>, <<>>, {})


(***************************************************************************)
(* Gantt.get_snap_position                                                 *)
(***************************************************************************)
\* the string '1d' the snapper falls back to
DefaultSnap == [n |-> 1, u |-> "d"]

\* unit_length: the number of snap cells in one column; snap_at is
\* options.snap_at || view_mode.snap_at || '1d'
unit_length(options, mode) ==
    LET default_snap == IF options.snap_at # NoDuration THEN options.snap_at
                        ELSE IF mode.snap_at # NoDuration THEN mode.snap_at
                        ELSE DefaultSnap
        parsed == parse_duration(default_snap)
    IN  convert_scales(mode.step, parsed.scale) \div parsed.duration

\* the snap grid column_width / unit_length
SnapGrid(config, ul) == config.column_width \div ul

\* a variant of final_dx that always steps one grid cell further
SnapDeltaStepping(dx, grid) ==
    LET rem == JsRem(dx, grid)
    IN  dx - rem + grid

\* final_dx: dx - rem + (rem < grid * 2 ? 0 : grid)
SnapDelta(dx, grid) ==
    LET rem == JsRem(dx, grid)
    IN  dx - rem + (IF rem < grid * 2 THEN 0 ELSE grid)

RECURSIVE SnapLoop(_, _, _)
\* the while loop over the ignored regions: a step of one column in the
\* direction of travel, taken back when it leaves the ignored regions
SnapLoop(config, final_pos, drn) ==
    IF get_ignored_region(config, final_pos, drn) = <<>>
    THEN final_pos
    ELSE LET stepped == final_pos + config.column_width * drn
         IN  IF get_ignored_region(config, stepped, drn) = <<>>
             THEN stepped - config.column_width * drn
             ELSE SnapLoop(config, stepped, drn)

get_snap_position(config, ul, dx, ox) ==
    LET final_dx == SnapDelta(dx, SnapGrid(config, ul))
        drn == IF final_dx > 0 THEN 1 ELSE -1
    IN  SnapLoop(config, ox + final_dx, drn) - ox

(***************************************************************************)
(* Bar.compute_start_end_date, date_changed, compute_progress              *)
(***************************************************************************)
\* date_utils.add(date, qty, unit) in the unit of the view; parseInt
\* truncates the quantity num / den
add_unit(date, num, den, unit) ==
    CASE unit = "day" -> add_days(date, Trunc(num, den))
      [] OTHER -> date

compute_start_end_date(bar, gantt_start, config) ==
    LET new_start_date == add_unit(gantt_start, bar.bar_x * config.step,
                                   config.column_width, config.unit)
        new_end_date == add_unit(new_start_date, bar.bar_w * config.step,
                                 config.column_width, config.unit)
    IN  [new_start_date |-> new_start_date, new_end_date |-> new_end_date]

ViewChange(mode) == [event |-> "view_change", id |-> mode.name, a |-> 0, b |-> 0]
DoubleClick(id) == [event |-> "double_click", id |-> id, a |-> 0, b |-> 0]
DateChange(id, s, e) == [event |-> "date_change", id |-> id, a |-> s, b |-> e]
ProgressChange(id, p) == [event |-> "progress_change", id |-> id, a |-> p, b |-> 0]

\* Bar.date_changed on the gantt state g = [tasks, bars, emitted, thrown]
date_changed(g, b, gantt_start, config) ==
    LET bar == g.bars[b]
        task == g.tasks[bar.task]
        d == compute_start_end_date(bar, gantt_start, config)
        changed == task._start # d.new_start_date \/ task._end # d.new_end_date
    IN  IF ~changed THEN g
        ELSE [g EXCEPT !.tasks[bar.task]._start = d.new_start_date,
                       !.tasks[bar.task]._end = d.new_end_date,
                       !.emitted = Append(@, DateChange(task.id,
                                        d.new_start_date, d.new_end_date))]

\* number of entries val of positions with lo <= val <= hi
CountInClosed(positions, lo, hi) ==
    Cardinality({i \in DOMAIN positions : positions[i] >= lo /\ positions[i] <= hi})

\* the value Bar.compute_progress returns; parseInt truncates
compute_progress_value(bar, config) ==
    LET progress_width == bar.prog_w
        x == bar.prog_x
        progress == progress_width
            - CountInClosed(config.ignored_positions, x, x + progress_width)
                * config.column_width
        total == bar.bar_w - bar.ignored_duration_raw * config.column_width
    IN  IF progress_width = NaN THEN NaN
        ELSE IF progress < 0 THEN 0
        \* parseInt of Infinity or of NaN
        ELSE IF total = 0 THEN NaN
        ELSE Trunc(progress * 100, total)


(***************************************************************************)
(* Bar.update_bar_position                                                 *)
(***************************************************************************)
\* an argument that was not passed (null)
Null == -2000000

\* Bar.update_progressbar_position
update_progressbar_position(g, b, config, options) ==
    IF options.readonly THEN g
    ELSE LET bar == g.bars[b]
         IN  [g EXCEPT !.bars[b].prog_x = bar.bar_x,
                       !.bars[b].prog_w =
                           calculate_progress_width(config, bar.x, bar.bar_w,
                                                    g.tasks[bar.task].progress)]

\* Bar.compute_duration on the gantt state
update_duration(g, b, config) ==
    LET bar == g.bars[b]
        dur == compute_duration(g.tasks[bar.task], config)
    IN  [g EXCEPT !.tasks[bar.task].actual_duration = dur.actual_duration,
                  !.tasks[bar.task].ignored_duration = dur.ignored_duration,
                  !.bars[b].duration = dur.duration,
                  !.bars[b].actual_duration_raw = dur.actual_duration_raw,
                  !.bars[b].ignored_duration_raw = dur.ignored_duration_raw]

\* a variant of the predecessor check that accepts every x
valid_x_any(g, b, x) == TRUE

\* the predecessor check: x >= the x of the bar of every dependency
valid_x(g, b, x) ==
    LET deps == g.tasks[g.bars[b].task].dependencies
    IN  \A k \in DOMAIN deps :
            x >= g.bars[get_bar(g.bars, g.tasks, deps[k])].bar_x

\* some dependency id names no bar: get_bar(dep).$bar throws a TypeError
DependencyThrows(g, b) ==
    LET deps == g.tasks[g.bars[b].task].dependencies
    IN  \E k \in DOMAIN deps : get_bar(g.bars, g.tasks, deps[k]) = 0

\* Bar.update_arrow_position of bar b: every arrow of bar.arrows is updated.
\* map_arrows_on_bars gave the bar the arrows one of whose ends has the
\* bar's task id, and gave no bar any arrow when it raised.
update_arrow_position(g, b) ==
    IF MapArrowsThrows(g.tasks, g.bars, g.arrows) THEN g
    ELSE LET id == g.tasks[g.bars[b].task].id
             OfBar(arrow) ==
                \/ g.tasks[g.bars[arrow.from_task].task].id = id
                \/ g.tasks[g.bars[arrow.to_task].task].id = id
         IN  [g EXCEPT !.arrows =
                [a \in DOMAIN g.arrows |->
                    IF OfBar(g.arrows[a])
                    THEN [g.arrows[a] EXCEPT !.path =
                            route(g.bars, g.arrows[a].from_task,
                                  g.arrows[a].to_task)]
                    ELSE g.arrows[a]]]

\* the part of update_bar_position after the attributes are set
AfterPosition(g, b, gantt_start, config, options) ==
    update_arrow_position(
        update_progressbar_position(
            update_duration(date_changed(g, b, gantt_start, config), b, config),
            b, config, options),
        b)

update_bar_position(g, b, x, width, gantt_start, config, options) ==
    IF x # Null /\ DependencyThrows(g, b) THEN [g EXCEPT !.thrown = "TypeError"]
    ELSE IF x # Null /\ ~valid_x(g, b, x) THEN g
    ELSE LET g1 == IF x # Null
                   THEN [g EXCEPT !.bars[b].bar_x = x, !.bars[b].x = x]
                   ELSE g
             g2 == IF width # Null /\ width > 0
                   THEN [g1 EXCEPT !.bars[b].bar_w = width]
                   ELSE g1
         IN  AfterPosition(g2, b, gantt_start, config, options)


(***************************************************************************)
(* State                                                                   *)
(***************************************************************************)
VARIABLES
    options,            \* Gantt.options
    mode,               \* the view mode object, config.view_mode
    input,              \* the task array last given to the constructor or refresh
    tasks,              \* Gantt.tasks, the working set
    bars,               \* Gantt.bars
    arrows,             \* Gantt.arrows
    dependency_map,     \* Gantt.dependency_map
    gantt_start,        \* Gantt.gantt_start
    gantt_end,          \* Gantt.gantt_end
    config,             \* Gantt.config
    bar_being_dragged,  \* Gantt.bar_being_dragged: "null", "false" or "true"
    drag,               \* the variables bind_bar_events closes over
    prog,               \* the variables bind_bar_progress closes over
    emitted,            \* the notifications triggered by the last operation
    thrown,             \* how the last operation ended: "none", "TypeError",
                        \* "Error" or "hang"
    gestures,           \* the number of pointer-downs so far
    button,             \* the pointer's button: "up" or "down"
    gd,                 \* a run of the loop of get_all_dependent_tasks
    sn                  \* an application of get_snap_position

vars == <<options, mode, input, tasks, bars, arrows, dependency_map,
          gantt_start, gantt_end, config, bar_being_dragged, drag, prog,
          emitted, thrown, gestures, button, gd, sn>>

ganttVars == <<options, mode, input, tasks, bars, arrows, dependency_map,
               gantt_start, gantt_end, config, bar_being_dragged, drag, prog,
               emitted, thrown, gestures, button>>

\* the closure of bind_bar_events before any event
DragInit ==
    [is_dragging |-> FALSE, is_resizing_left |-> FALSE,
     is_resizing_right |-> FALSE, x_on_start |-> 0,
     parent_bar_id |-> Undefined, bars |-> <<>>, pos |-> 0]

\* the closure of bind_bar_progress; range_positions is computed once,
\* when the events are bound
ProgInit(cfg) ==
    [is_resizing |-> FALSE, x_on_start |-> 0, bar |-> 0,
     range_positions |->
        [i \in DOMAIN cfg.ignored_positions |->
            <<cfg.ignored_positions[i],
              cfg.ignored_positions[i] + cfg.column_width>>]]

\* no call of get_all_dependent_tasks is running
GdIdle == [pc |-> "idle", task_id |-> Undefined, to_process |-> <<>>,
           out |-> <<>>, seen |-> {}, passes |-> 0, result |-> <<>>]

\* no call of get_snap_position was made
SnIdle == [pc |-> "idle", dx |-> 0, ox |-> 0, s |-> 0, again |-> 0]

\* the state the constructor leaves for an input, options and view mode
Constructed(in, opts, md) ==
    LET l == Load(in, opts, md)
    IN  /\ options = [opts EXCEPT !.view_mode = md.name]
        /\ mode = md
        /\ input = in
        /\ tasks = l.tasks
        /\ bars = l.bars
        /\ arrows = l.arrows
        /\ dependency_map = l.dependency_map
        /\ gantt_start = l.gantt_start
        /\ gantt_end = l.gantt_end
        /\ config = l.config
        /\ bar_being_dragged = "null"
        /\ drag = DragInit
        /\ prog = ProgInit(l.config)
        /\ emitted = <<>>
        /\ thrown = l.thrown
        /\ gestures = 0
        /\ button = "up"


(***************************************************************************)
(* Pointer events                                                          *)
(***************************************************************************)
\* the pointer coordinates (getMouseX) an event can carry
MouseXs == {k * Px : k \in 0..MaxMouseX}

\* the gantt state the handlers transform
G == [tasks |-> tasks, bars |-> bars, arrows |-> arrows, emitted |-> <<>>,
      thrown |-> "none"]

Abs(n) == IF n < 0 THEN -n ELSE n

\* the elements a pointer-down can hit on bar b, by options
HasTarget(target) ==
    CASE target = "bar" -> TRUE
      [] target = "left" -> ~options.readonly /\ ~options.readonly_dates
      [] target = "right" -> ~options.readonly /\ ~options.readonly_dates
      [] target = "progress" -> ~options.readonly /\ ~options.readonly_progress

\* the pointer is on the element: the bar rectangle, or within MaxGrab
\* pixels of a handle (the handle rectangles are 3 wide, the circle of the
\* progress handle has radius 4.5)
OnTarget(target, b, mx) ==
    LET bar == bars[b]
    IN  CASE target = "bar" -> mx >= bar.bar_x /\ mx <= bar.bar_x + bar.bar_w
          [] target = "left" -> Abs(mx - bar.bar_x) <= MaxGrab * Px
          [] target = "right" -> Abs(mx - (bar.bar_x + bar.bar_w)) <= MaxGrab * Px
          [] target = "progress" ->
                /\ bar.prog_w # NaN
                /\ Abs(mx - (bar.prog_x + bar.prog_w)) <= MaxGrab * Px

\* mousedown on '.bar-wrapper, .handle' (bind_bar_events)
bar_mousedown(target, b, mx) ==
    LET parent_bar_id == tasks[bars[b].task].id
        closure == IF options.move_dependencies
                   THEN get_all_dependent_tasks(dependency_map, parent_bar_id)
                   ELSE [diverges |-> FALSE, out |-> <<>>]
        ids == <<parent_bar_id>> \o closure.out
        bs == [k \in DOMAIN ids |-> get_bar(bars, tasks, ids[k])]
        flagged == [drag EXCEPT
                      !.is_resizing_left = IF target = "left" THEN TRUE ELSE @,
                      !.is_resizing_right = IF target = "right" THEN TRUE ELSE @,
                      !.is_dragging = IF target = "bar" THEN TRUE ELSE @,
                      !.x_on_start = mx,
                      !.parent_bar_id = parent_bar_id]
    IN  IF closure.diverges
        \* the while loop of get_all_dependent_tasks never ends
        THEN [drag |-> flagged, bars |-> bars,
              bar_being_dragged |-> bar_being_dragged, thrown |-> "hang"]
        ELSE [drag |-> [flagged EXCEPT !.bars = bs, !.pos = mx],
              bars |-> [k \in DOMAIN bars |->
                          IF k \in Range(bs)
                          THEN [bars[k] EXCEPT !.ox = bars[k].bar_x,
                                               !.owidth = bars[k].bar_w,
                                               !.finaldx = 0]
                          ELSE bars[k]],
              bar_being_dragged |-> "false",
              thrown |-> "none"]

\* x - y and x + y on widths that may be NaN
NaNSub(x, y) == IF x = NaN \/ y = NaN THEN NaN ELSE x - y
NaNAdd(x, y) == IF x = NaN \/ y = NaN THEN NaN ELSE x + y

\* mousedown on '.handle.progress' (bind_bar_progress)
progress_mousedown(bs, b, mx) ==
    [prog |-> [prog EXCEPT !.is_resizing = TRUE, !.x_on_start = mx, !.bar = b],
     bars |-> [bs EXCEPT ![b].p_finaldx = 0,
                         ![b].p_owidth = bs[b].prog_w,
                         ![b].min_dx = NaNSub(0, bs[b].prog_w),
                         ![b].max_dx = NaNSub(bs[b].bar_w, bs[b].prog_w)]]

\* A pointer-down on bar b or on one of its handles.  Both mousedown
\* listeners of the svg run, the one of bind_bar_events first.
MouseDownOn(limit, target, b, mx) ==
    /\ thrown # "hang"
    /\ gestures < limit
    /\ gestures' = gestures + 1
    /\ b \in DOMAIN bars
    /\ HasTarget(target)
    /\ OnTarget(target, b, mx)
    /\ LET r1 == bar_mousedown(target, b, mx)
           r2 == IF target = "progress" /\ r1.thrown = "none"
                 THEN progress_mousedown(r1.bars, b, mx)
                 ELSE [prog |-> prog, bars |-> r1.bars]
       IN  /\ drag' = r1.drag
           /\ bar_being_dragged' = r1.bar_being_dragged
           /\ thrown' = r1.thrown
           /\ prog' = r2.prog
           /\ bars' = r2.bars
    /\ emitted' = <<>>
    /\ UNCHANGED <<options, mode, input, tasks, arrows, dependency_map,
                   gantt_start, gantt_end, config, gd, sn>>

\* the pointer-down of a button while no button is held
MouseDownWithin(limit, target, b, mx) ==
    /\ button = "up"
    /\ button' = "down"
    /\ MouseDownOn(limit, target, b, mx)

MouseDown(target, b, mx) == MouseDownWithin(MaxGestures, target, b, mx)

\* action_in_progress of bind_bar_events
action_in_progress ==
    drag.is_dragging \/ drag.is_resizing_left \/ drag.is_resizing_right

\* a variant of the body of bars.forEach that moves the grabbed bar only
MoveBarAlone(g, b, dx, ul) ==
    LET bar == g.bars[b]
        finaldx == get_snap_position(config, ul, dx, bar.ox)
        g1 == [g EXCEPT !.bars[b].finaldx = finaldx]
    IN  IF drag.parent_bar_id = g.tasks[bar.task].id /\ drag.is_dragging
        THEN update_bar_position(g1, b, bar.ox + finaldx, Null,
                                 gantt_start, config, options)
        ELSE g1

\* a variant of the body of bars.forEach whose move branch does not look
\* at options.readonly and options.readonly_dates
MoveBarOfWritable(g, b, dx, ul) ==
    LET bar == g.bars[b]
        finaldx == get_snap_position(config, ul, dx, bar.ox)
        g1 == [g EXCEPT !.bars[b].finaldx = finaldx]
        is_parent == drag.parent_bar_id = g.tasks[bar.task].id
    IN  IF drag.is_resizing_left
        THEN IF is_parent
             THEN update_bar_position(g1, b, bar.ox + finaldx,
                                      bar.owidth - finaldx,
                                      gantt_start, config, options)
             ELSE update_bar_position(g1, b, bar.ox + finaldx, Null,
                                      gantt_start, config, options)
        ELSE IF drag.is_resizing_right
        THEN IF is_parent
             THEN update_bar_position(g1, b, Null, bar.owidth + finaldx,
                                      gantt_start, config, options)
             ELSE g1
        ELSE IF drag.is_dragging
        THEN update_bar_position(g1, b, bar.ox + finaldx, Null,
                                 gantt_start, config, options)
        ELSE g1

\* the body of bars.forEach in the svg mousemove listener, for bar b
MoveBar(g, b, dx, ul) ==
    LET bar == g.bars[b]
        finaldx == get_snap_position(config, ul, dx, bar.ox)
        g1 == [g EXCEPT !.bars[b].finaldx = finaldx]
        is_parent == drag.parent_bar_id = g.tasks[bar.task].id
    IN  IF drag.is_resizing_left
        THEN IF is_parent
             THEN update_bar_position(g1, b, bar.ox + finaldx,
                                      bar.owidth - finaldx,
                                      gantt_start, config, options)
             ELSE update_bar_position(g1, b, bar.ox + finaldx, Null,
                                      gantt_start, config, options)
        ELSE IF drag.is_resizing_right
        THEN IF is_parent
             THEN update_bar_position(g1, b, Null, bar.owidth + finaldx,
                                      gantt_start, config, options)
             ELSE g1
        ELSE IF drag.is_dragging /\ ~options.readonly /\ ~options.readonly_dates
        THEN update_bar_position(g1, b, bar.ox + finaldx, Null,
                                 gantt_start, config, options)
        ELSE g1

RECURSIVE MoveBars(_, _, _, _)
\* bars.forEach: an exception ends the iteration
MoveBars(g, bs, dx, ul) ==
    IF bs = <<>> \/ g.thrown # "none" THEN g
    ELSE MoveBars(MoveBar(g, Head(bs), dx, ul), Tail(bs), dx, ul)

\* the first range of range_positions that holds now_x, <<>> when none
FindRange(ranges, now_x, moving_right) ==
    LET hits == SelectSeq(ranges, LAMBDA k :
                    IF moving_right THEN now_x >= k[1] /\ now_x < k[2]
                    ELSE now_x > k[1] /\ now_x <= k[2])
    IN  IF hits = <<>> THEN <<>> ELSE Head(hits)

RECURSIVE SkipRanges(_, _, _)
\* the while loops of the progress mousemove listener
SkipRanges(ranges, now_x, moving_right) ==
    LET k == FindRange(ranges, now_x, moving_right)
    IN  IF k = <<>> THEN now_x
        ELSE SkipRanges(ranges, IF moving_right THEN k[2] ELSE k[1], moving_right)

\* the mousemove listener of bind_bar_progress
progress_mousemove(bs, mx) ==
    IF ~prog.is_resizing THEN bs
    ELSE LET b == prog.bar
             now_x == SkipRanges(prog.range_positions, mx, mx > prog.x_on_start)
             dx0 == now_x - prog.x_on_start
             dx1 == IF bs[b].max_dx # NaN /\ dx0 > bs[b].max_dx
                    THEN bs[b].max_dx ELSE dx0
             dx == IF bs[b].min_dx # NaN /\ dx1 < bs[b].min_dx
                   THEN bs[b].min_dx ELSE dx1
         IN  [bs EXCEPT ![b].prog_w = NaNAdd(bs[b].p_owidth, dx),
                        ![b].p_finaldx = dx]

\* every bar stays within one column of the chart's date range
InChart(bs) ==
    \A k \in DOMAIN bs :
        /\ bs[k].bar_x >= -(config.column_width)
        /\ bs[k].bar_x + bs[k].bar_w
              <= PositionOf(gantt_end, gantt_start, config) + config.column_width

\* A pointer-move over the svg at mx; over_bar: the pointer is on a bar
\* wrapper or a handle.  The listeners run in the order they were bound.
MouseMove(mx, over_bar) ==
    /\ thrown # "hang"
    /\ over_bar => \E b \in DOMAIN bars :
                      mx >= bars[b].bar_x - MaxGrab * Px
                      /\ mx <= bars[b].bar_x + bars[b].bar_w + MaxGrab * Px
    /\ LET g1 == IF action_in_progress
                 THEN MoveBars(G, drag.bars, mx - drag.x_on_start,
                               unit_length(options, mode))
                 ELSE G
       IN  /\ InChart(g1.bars)
           /\ tasks' = g1.tasks
           /\ bars' = progress_mousemove(g1.bars, mx)
           /\ arrows' = g1.arrows
           /\ emitted' = g1.emitted
           /\ thrown' = g1.thrown
    /\ bar_being_dragged' =
            IF over_bar /\ bar_being_dragged = "false"
               /\ Abs(mx - drag.pos) > 10 * Px
            THEN "true" ELSE bar_being_dragged
    /\ UNCHANGED <<options, mode, input, dependency_map, gantt_start,
                   gantt_end, config, drag, prog, gestures, button, gd, sn>>


\* Bar.compute_progress as called for its effect: it stores the progress
\* rectangle's width and x on the bar
compute_progress(g, b) ==
    [g EXCEPT !.bars[b].x = g.bars[b].prog_x]

\* Bar.set_action_completed: sets the flag and starts a timer of one second
\* (SettleTimeout); timers counts the timers of the bar that have not fired
set_action_completed(g, b) ==
    [g EXCEPT !.bars[b].action_completed = TRUE,
              !.bars[b].timers = @ + 1]

\* the body of bars.forEach in the svg mouseup listener of bind_bar_events
CommitBar(g, b) ==
    IF g.bars[b].finaldx = 0 THEN g
    ELSE set_action_completed(
            compute_progress(date_changed(g, b, gantt_start, config), b), b)

RECURSIVE CommitBars(_, _)
CommitBars(g, bs) ==
    IF bs = <<>> THEN g ELSE CommitBars(CommitBar(g, Head(bs)), Tail(bs))

\* Bar.progress_changed
progress_changed(g, b) ==
    LET p == compute_progress_value(g.bars[b], config)
        g1 == compute_progress(g, b)
    IN  [g1 EXCEPT !.tasks[g.bars[b].task].progress = p,
                   !.emitted = Append(@, ProgressChange(
                                    g.tasks[g.bars[b].task].id, p))]

\* the svg mouseup listener of bind_bar_progress
progress_mouseup(g) ==
    IF prog.bar # 0 /\ g.bars[prog.bar].p_finaldx # 0
    THEN [g |-> set_action_completed(
                    progress_changed(
                        [g EXCEPT !.bars[prog.bar].p_finaldx = 0], prog.bar),
                    prog.bar),
          prog |-> [prog EXCEPT !.is_resizing = FALSE, !.bar = 0]]
    ELSE [g |-> g, prog |-> [prog EXCEPT !.is_resizing = FALSE]]

\* the mouseup listener of the document
document_mouseup ==
    [drag EXCEPT !.is_dragging = FALSE, !.is_resizing_left = FALSE,
                 !.is_resizing_right = FALSE]

\* the mouseup listeners of a pointer-up over the svg: the two svg
\* listeners run, then the event bubbles to the document
SvgMouseUp ==
    /\ thrown # "hang"
    /\ LET r == progress_mouseup(CommitBars(G, drag.bars))
       IN  /\ tasks' = r.g.tasks
           /\ bars' = r.g.bars
           /\ emitted' = r.g.emitted
           /\ thrown' = r.g.thrown
           /\ prog' = r.prog
    /\ bar_being_dragged' = "null"
    /\ drag' = document_mouseup
    /\ UNCHANGED <<options, mode, input, arrows, dependency_map, gantt_start,
                   gantt_end, config, gd, sn>>

\* A pointer-up over the svg that ends a gesture
MouseUp ==
    /\ button = "down"
    /\ button' = "up"
    /\ SvgMouseUp
    /\ UNCHANGED gestures

\* A pointer-up outside the svg: only the document's listener runs.
MouseUpOutside ==
    /\ thrown # "hang"
    /\ button = "down"
    /\ button' = "up"
    /\ drag' = document_mouseup
    /\ emitted' = <<>>
    /\ thrown' = "none"
    /\ UNCHANGED <<options, mode, input, tasks, bars, arrows, dependency_map,
                   gantt_start, gantt_end, config, bar_being_dragged, prog,
                   gestures, gd, sn>>

\* A timer of set_action_completed fires for bar b.  The timers all run
\* for one second, so they fire in the order they were started.
SettleTimeout(b) ==
    /\ thrown # "hang"
    /\ b \in DOMAIN bars
    /\ bars[b].timers > 0
    /\ bars' = [bars EXCEPT ![b].action_completed = FALSE,
                            ![b].timers = @ - 1]
    /\ emitted' = <<>>
    /\ thrown' = "none"
    /\ UNCHANGED <<options, mode, input, tasks, arrows, dependency_map,
                   gantt_start, gantt_end, config, bar_being_dragged, drag,
                   prog, gestures, button, gd, sn>>


(***************************************************************************)
(* Inputs of the interaction machine                                       *)
(***************************************************************************)
\* a task as the caller writes it
RawTask(id, start, end, duration, progress, dependencies) ==
    [id |-> id, start |-> start, end |-> end, duration |-> duration,
     progress |-> progress, dependencies |-> dependencies,
     typeof_dependencies |-> "object",
     _start |-> NoDate, _end |-> NoDate, _index |-> -1,
     actual_duration |-> 0, ignored_duration |-> 0]

\* the task with its dependencies given as a string of these characters
StringDependencies(task, chars) ==
    [task EXCEPT !.dependencies = chars, !.typeof_dependencies = "string"]

\* the task with no dependencies property
NoDependencies(task) ==
    [task EXCEPT !.dependencies = <<>>, !.typeof_dependencies = "undefined"]

Days(n) == [n |-> n, u |-> "d"]
Hours(n) == [n |-> n, u |-> "h"]

\* a view mode object of one day per column, 2 pixels wide
DayMode ==
    [name |-> "Day", padding |-> Days(1), step |-> Days(1),
     column_width |-> 2 * Px, snap_at |-> NoDuration]

\* the task arrays the chart is constructed with
ChainTasks ==
    << RawTask("A", 1, 3, NoDuration, 50, <<>>),
       RawTask("B", 3, 5, NoDuration, 50, <<"A">>) >>

\* B spans the weekend (days 5 and 6)
WeekendTasks ==
    << RawTask("A", 3, 4, NoDuration, 50, <<>>),
       RawTask("B", 4, 8, NoDuration, 50, <<"A">>) >>

\* C depends on B and is listed, and starts, before it
OutOfOrderTasks ==
    << RawTask("A", 1, 3, NoDuration, 0, <<>>),
       RawTask("C", 2, 4, NoDuration, 100, <<"A", "B">>),
       RawTask("B", 4, 5, NoDuration, 50, <<"A">>) >>

DanglingTasks ==
    << RawTask("A", 2, 4, NoDuration, 50, <<UnknownId>>),
       RawTask("B", 4, 5, NoDuration, 0, <<"A">>) >>

CyclicTasks ==
    << RawTask("A", 1, 3, NoDuration, 50, <<"B">>),
       RawTask("B", 2, 4, NoDuration, 50, <<"A">>) >>

\* B lies on an ignored day (day 6, a Sunday) only
IgnoredDayTasks ==
    << RawTask("A", 3, 4, NoDuration, 50, <<>>),
       RawTask("B", 6, 7, NoDuration, 0, <<>>) >>

\* options.ignore: nothing, the weekend, or one explicit date
\* throws: the days for which the ignore function raises an exception
NoIgnore == [dates |-> {}, weekend |-> FALSE, throws |-> {}]
Weekend == [dates |-> {}, weekend |-> TRUE, throws |-> {}]
Holiday == [dates |-> {4}, weekend |-> FALSE, throws |-> {}]
Throwing == [dates |-> {}, weekend |-> TRUE, throws |-> {-1, 8}]

\* a view mode of twelve hours per column
HalfDayMode ==
    [name |-> "Half Day", padding |-> Days(1), step |-> Hours(12),
     column_width |-> 2 * Px, snap_at |-> NoDuration]

\* a view mode of two days per column
TwoDayMode ==
    [name |-> "Two Days", padding |-> Days(2), step |-> Days(2),
     column_width |-> 4 * Px, snap_at |-> NoDuration]

\* options.view_modes: the view modes the chart is configured with
ViewModes == <<DayMode, HalfDayMode, TwoDayMode>>

Options(move_dependencies, snap_at, ignore) ==
    [view_mode |-> Undefined,
     view_modes |-> ViewModes,
     move_dependencies |-> move_dependencies,
     readonly |-> FALSE, readonly_dates |-> FALSE, readonly_progress |-> FALSE,
     snap_at |-> snap_at,
     column_width |-> 0,
     bar_height |-> 30 * Px, padding |-> 18 * Px,
     lower_header_height |-> 0, upper_header_height |-> 0,
     ignore |-> ignore]

\* the charts the machine is run on
Setups ==
    { [tasks |-> ChainTasks, options |-> Options(TRUE, NoDuration, NoIgnore)],
      [tasks |-> ChainTasks, options |-> Options(FALSE, Hours(12), NoIgnore)],
      [tasks |-> WeekendTasks, options |-> Options(TRUE, NoDuration, Weekend)],
      [tasks |-> OutOfOrderTasks, options |-> Options(TRUE, NoDuration, NoIgnore)],
      [tasks |-> DanglingTasks, options |-> Options(TRUE, NoDuration, NoIgnore)],
      [tasks |-> CyclicTasks, options |-> Options(TRUE, NoDuration, NoIgnore)],
      [tasks |-> IgnoredDayTasks, options |-> Options(FALSE, NoDuration, Weekend)] }

(***************************************************************************)
(* The interaction machine                                                 *)
(***************************************************************************)
Init ==
    /\ \E setup \in Setups : Constructed(setup.tasks, setup.options, DayMode)
    /\ gd = GdIdle
    /\ sn = SnIdle

Targets == {"bar", "left", "right", "progress"}

\* the jitter listener reads the hovered element only while
\* bar_being_dragged is false
OverBar == IF bar_being_dragged = "false" THEN BOOLEAN ELSE {FALSE}

Next ==
    \/ \E target \in Targets : \E b \in 1..MaxTasks : \E mx \in MouseXs :
          MouseDown(target, b, mx)
    \/ \E mx \in MouseXs : \E over_bar \in OverBar : MouseMove(mx, over_bar)
    \/ MouseUp
    \/ MouseUpOutside
    \/ \E b \in 1..MaxTasks : SettleTimeout(b)

Spec == Init /\ [][Next]_vars

(***************************************************************************)
(* The snap function applied to a raw delta, and to its own result         *)
(***************************************************************************)
\* the charts whose grid the snap function is applied on
SnapSetups ==
    { [tasks |-> WeekendTasks, options |-> Options(FALSE, snap_at, ignore)] :
        snap_at \in {NoDuration, Hours(12)},
        ignore \in {NoIgnore, Weekend, Holiday} }

\* raw deltas, in quarter columns, and origins, in half columns
SnapDxs == {k * (Px \div 2) : k \in (-4 * MaxCells)..(4 * MaxCells)}
SnapOxs == {k * Px : k \in 0..(2 * MaxCells)}

InitSnap ==
    /\ \E setup \in SnapSetups : Constructed(setup.tasks, setup.options, DayMode)
    /\ gd = GdIdle
    /\ sn = SnIdle

\* s = get_snap_position(dx, ox)
SnapFirst(dx, ox) ==
    /\ sn.pc = "idle"
    /\ sn' = [pc |-> "once", dx |-> dx, ox |-> ox,
              s |-> get_snap_position(config, unit_length(options, mode), dx, ox),
              again |-> 0]
    /\ UNCHANGED <<ganttVars, gd>>

\* get_snap_position(s, ox)
SnapAgain ==
    /\ sn.pc = "once"
    /\ sn' = [sn EXCEPT !.pc = "twice",
                        !.again = get_snap_position(
                            config, unit_length(options, mode), sn.s, sn.ox)]
    /\ UNCHANGED <<ganttVars, gd>>

NextSnap ==
    \/ \E dx \in SnapDxs : \E ox \in SnapOxs : SnapFirst(dx, ox)
    \/ SnapAgain

SpecSnap == InitSnap /\ [][NextSnap]_vars

(***************************************************************************)
(* The while loop of get_snap_position, one pass at a time                 *)
(***************************************************************************)
MaxSnapPasses == 6

\* a variant of the step of the loop that stays where it is
SnapSteppedNowhere(cfg, final_pos, drn) == final_pos

\* final_pos += this.config.column_width * drn
SnapStepped(cfg, final_pos, drn) == final_pos + cfg.column_width * drn

\* before a call: entered is final_pos as the loop is entered
SnLoopIdle ==
    [pc |-> "idle", dx |-> 0, ox |-> 0, entered |-> 0, final_pos |-> 0,
     drn |-> 1, passes |-> 0, s |-> 0]

InitSnapLoop ==
    /\ \E setup \in SnapSetups : Constructed(setup.tasks, setup.options, DayMode)
    /\ gd = GdIdle
    /\ sn = SnLoopIdle

\* the call up to the first test of the loop
SnapCalled(dx, ox, final_dx, drn) ==
    /\ sn.pc = "idle"
    /\ sn' = [pc |-> IF get_ignored_region(config, ox + final_dx, drn) = <<>>
                     THEN "done" ELSE "loop",
              dx |-> dx, ox |-> ox, entered |-> ox + final_dx,
              final_pos |-> ox + final_dx, drn |-> drn, passes |-> 0,
              s |-> sn.s]
    /\ UNCHANGED <<ganttVars, gd>>

SnapCallWith(dx, ox, final_dx) ==
    SnapCalled(dx, ox, final_dx, IF final_dx > 0 THEN 1 ELSE -1)

SnapCall(dx, ox) ==
    SnapCallWith(dx, ox,
                 SnapDelta(dx, SnapGrid(config, unit_length(options, mode))))

\* one pass of the loop from the position stepped to
SnapPassed(stepped) ==
    /\ sn.pc = "loop"
    /\ sn.passes < MaxSnapPasses
    /\ sn' = IF get_ignored_region(config, stepped, sn.drn) = <<>>
             THEN [sn EXCEPT !.pc = "done",
                             !.final_pos = stepped - config.column_width * sn.drn,
                             !.passes = @ + 1]
             ELSE [sn EXCEPT !.final_pos = stepped, !.passes = @ + 1]
    /\ UNCHANGED <<ganttVars, gd>>

SnapPass == SnapPassed(SnapStepped(config, sn.final_pos, sn.drn))

\* return final_pos - ox: s is the value the last call returned
SnapReturn ==
    /\ sn.pc = "done"
    /\ sn' = [SnLoopIdle EXCEPT !.s = sn.final_pos - sn.ox]
    /\ UNCHANGED <<ganttVars, gd>>

NextSnapLoop ==
    \/ \E dx \in SnapDxs : \E ox \in SnapOxs : SnapCall(dx, ox)
    \/ SnapPass
    \/ SnapReturn

SpecSnapLoop == InitSnapLoop /\ [][NextSnapLoop]_vars

\* a call that has started goes on running
SpecSnapLoopFair == SpecSnapLoop /\ WF_vars(SnapPass)

(***************************************************************************)
(* Loading and refreshing                                                  *)
(***************************************************************************)
\* more than ten years after day 1
FarDay == 1 + 11 * DaysPerYear

\* day 1 of the next year, and a day of the year before it
NextYearDay == DaysPerYear + 1
ThisYearDay == DaysPerYear - 1

\* the tasks a caller may write for the id at position k of an input
TaskShapes(id, deps) ==
    { RawTask(id, NoDate, 3, NoDuration, 50, deps),        \* no start
      RawTask(id, 1, NoDate, NoDuration, 50, deps),        \* no end, no duration
      RawTask(id, 1, 3, NoDuration, 50, deps),
      RawTask(id, 1, 5, NoDuration, 50, deps),
      RawTask(id, 2, 2, NoDuration, 50, deps),             \* ends on its first day
      RawTask(id, 1, NoDate, Days(2), 50, deps),
      RawTask(id, 1, FarDay, NoDuration, 50, deps),
      RawTask(id, NextYearDay, ThisYearDay, NoDuration, 50, deps) }

IdAt(k) == CASE k = 1 -> "A" [] k = 2 -> "B" [] k = 3 -> "C" [] OTHER -> "D"

\* the dependency strings of at most MaxChars characters that name id
DependencyStrings(id) ==
    UNION {[1..n -> {id, ",", " "}] : n \in 0..MaxChars}

\* the ids a caller may write for the first two tasks besides A and B: none,
\* an id with a space, the same id with an underscore, and the id of the
\* first task again
OtherIds(k) ==
    CASE k = 1 -> {Undefined, "A B"}
      [] k = 2 -> {Undefined, "A_B", IdAt(1)}
      [] OTHER -> {}

\* the tasks that can follow the tasks of an input: the next id, depending
\* on nothing or on the task before it; the second task may also name the
\* first twice, have no dependencies property, or give a dependency string;
\* the first two tasks may have another id
NextTasks(in) ==
    LET k == Len(in) + 1
        plain == TaskShapes(IdAt(k), <<>>)
    IN  plain
            \cup {RawTask(id, 1, 3, NoDuration, 50, <<>>) : id \in OtherIds(k)}
            \cup (IF k > 1 THEN TaskShapes(IdAt(k), <<IdAt(k - 1)>>) ELSE {})
            \cup (IF k = 2
                  THEN TaskShapes(IdAt(k), <<IdAt(1), IdAt(1)>>)
                        \cup {NoDependencies(t) : t \in plain}
                        \cup {StringDependencies(
                                    RawTask(IdAt(k), 1, 3, NoDuration, 50, <<>>), chars) :
                                chars \in DependencyStrings(IdAt(1))}
                  ELSE {})

\* options.column_width is 45 pixels
LoadOptions ==
    [Options(FALSE, NoDuration, NoIgnore) EXCEPT !.column_width = 45 * Px]

\* new Gantt(wrapper, [], options)
InitLoad ==
    /\ Constructed(<<>>, LoadOptions, DayMode)
    /\ gd = GdIdle
    /\ sn = SnIdle

(***************************************************************************)
(* Gantt.change_view_mode                                                  *)
(***************************************************************************)
\* the arguments of change_view_mode: nothing, a name, or a view mode object
NoMode == [type |-> "undefined"]
ModeName(name) == [type |-> "string", name |-> name]
ModeObject(md) == [type |-> "object", mode |-> md]

\* viewModes.find(d => d.name === name): its position, 0 when none
FindMode(view_modes, name) ==
    IF \E k \in DOMAIN view_modes : view_modes[k].name = name
    THEN CHOOSE k \in DOMAIN view_modes :
            /\ view_modes[k].name = name
            /\ \A j \in 1..(k - 1) : view_modes[j].name # name
    ELSE 0

\* viewMode = mode || this.options.view_mode: an absent argument and the
\* empty string give the current view mode's name
ViewModeOf(arg, opts) ==
    IF arg.type = "undefined" \/ (arg.type = "string" /\ arg.name = "")
    THEN ModeName(opts.view_mode)
    ELSE arg

\* the chart after the render r for the mode resolved: view_change is
\* triggered when the render has returned
Rendered(opts, resolved, r) ==
    [options |-> opts, mode |-> resolved, tasks |-> r.tasks,
     config |-> r.config, gantt_start |-> r.gantt_start,
     gantt_end |-> r.gantt_end, bars |-> r.bars, arrows |-> r.arrows,
     thrown |-> r.thrown,
     emitted |-> IF r.thrown = "none" THEN <<ViewChange(resolved)>> ELSE <<>>]

SetModeIn(ts, opts, resolved) ==
    Rendered(opts, resolved, Render(ts, opts, resolved))

\* the chart after the mode resolved is set and drawn
SetMode(c, resolved) ==
    SetModeIn(c.tasks, [c.options EXCEPT !.view_mode = resolved.name], resolved)

\* a variant of change_view_mode that stores the name before it is resolved
change_view_mode_storing(c, arg) ==
    LET viewMode == ViewModeOf(arg, c.options)
        found == IF viewMode.type = "string"
                 THEN FindMode(c.options.view_modes, viewMode.name) ELSE 0
    IN  IF viewMode.type = "string" /\ found = 0
        THEN [c EXCEPT !.thrown = "Error", !.emitted = <<>>,
                       !.options.view_mode = viewMode.name]
        ELSE SetMode(c, IF viewMode.type = "string"
                        THEN c.options.view_modes[found] ELSE viewMode.mode)

\* Gantt.change_view_mode(mode) on the chart c = [options, mode, tasks,
\* config, gantt_start, gantt_end, bars, arrows, thrown, emitted]
change_view_mode(c, arg) ==
    LET viewMode == ViewModeOf(arg, c.options)
        found == IF viewMode.type = "string"
                 THEN FindMode(c.options.view_modes, viewMode.name) ELSE 0
    IN  IF viewMode.type = "string" /\ found = 0
        THEN [c EXCEPT !.thrown = "Error", !.emitted = <<>>]
        ELSE SetMode(c, IF viewMode.type = "string"
                        THEN c.options.view_modes[found] ELSE viewMode.mode)

\* the chart as change_view_mode finds it
Chart ==
    [options |-> options, mode |-> mode, tasks |-> tasks, config |-> config,
     gantt_start |-> gantt_start, gantt_end |-> gantt_end, bars |-> bars,
     arrows |-> arrows, thrown |-> "none", emitted |-> <<>>]

\* the state a call of change_view_mode that gave the chart c leaves
Changed(c) ==
    /\ options' = c.options
    /\ mode' = c.mode
    /\ tasks' = c.tasks
    /\ config' = c.config
    /\ gantt_start' = c.gantt_start
    /\ gantt_end' = c.gantt_end
    /\ bars' = IF c.thrown = "Error" THEN bars ELSE c.bars
    /\ arrows' = IF c.thrown = "Error" THEN arrows ELSE c.arrows
    /\ thrown' = c.thrown
    /\ emitted' = c.emitted
    /\ UNCHANGED <<input, dependency_map, bar_being_dragged, drag, prog,
                   gestures, button, gd, sn>>

ChangeViewMode(arg) == Changed(change_view_mode(Chart, arg))

\* the state a refresh with the input in leaves, c being the chart the
\* final change_view_mode() gave
Refreshed(in, t0, c) ==
    /\ input' = in
    /\ dependency_map' = setup_dependencies(t0)
    /\ options' = c.options
    /\ mode' = c.mode
    /\ tasks' = c.tasks
    /\ config' = c.config
    /\ gantt_start' = c.gantt_start
    /\ gantt_end' = c.gantt_end
    /\ bars' = IF c.thrown = "Error" THEN bars ELSE c.bars
    /\ arrows' = IF c.thrown = "Error" THEN arrows ELSE c.arrows
    /\ thrown' = c.thrown
    /\ emitted' = c.emitted
    /\ UNCHANGED <<bar_being_dragged, drag, prog, gestures, button, gd, sn>>

RefreshedWith(in, t0) ==
    Refreshed(in, t0, change_view_mode([Chart EXCEPT !.tasks = t0], NoMode))

\* Gantt.refresh(tasks): setup_tasks(tasks), then change_view_mode(); the
\* listeners stay as the constructor bound them
refresh(in) == RefreshedWith(in, setup_tasks(in))

\* refresh with the current input and one more task
RefreshMore ==
    /\ Len(input) < MaxTasks
    /\ \E t \in NextTasks(input) : refresh(Append(input, t))

\* refresh with the current input without its last task
RefreshLess ==
    /\ input # <<>>
    /\ refresh(SubSeq(input, 1, Len(input) - 1))

NextLoad == RefreshMore \/ RefreshLess

SpecLoad == InitLoad /\ [][NextLoad]_vars

(***************************************************************************)
(* The loop of get_all_dependent_tasks, pass by pass                       *)
(***************************************************************************)
\* the dependency lists of a task: at most MaxDeps of the other ids
DepLists(id) ==
    LET others == Ids \ {id}
        one == {<<d>> : d \in others}
        two == {<<d, e>> : d \in others, e \in others}
    IN  {<<>>} \cup (IF MaxDeps >= 1 THEN one ELSE {})
               \cup (IF MaxDeps >= 2 THEN {l \in two : l[1] # l[2]} ELSE {})

DepTasks(da, db, dc, dd) ==
    << RawTask("A", 1, 2, NoDuration, 50, da),
       RawTask("B", 2, 3, NoDuration, 50, db),
       RawTask("C", 2, 3, NoDuration, 50, dc),
       RawTask("D", 3, 4, NoDuration, 50, dd) >>

InitDeps ==
    /\ \E da \in DepLists("A") : \E db \in DepLists("B") :
       \E dc \in DepLists("C") : \E dd \in DepLists("D") :
            /\ input = DepTasks(da, db, dc, dd)
            /\ tasks = Flatten([i \in 1..4 |-> setup_task(input[i], i - 1)])
            /\ dependency_map = setup_dependencies(tasks)
    /\ options = Options(TRUE, NoDuration, NoIgnore)
    /\ mode = DayMode
    /\ bars = <<>>
    /\ arrows = <<>>
    /\ gantt_start = 0
    /\ gantt_end = 0
    /\ config = update_view_scale(options, mode)
    /\ bar_being_dragged = "null"
    /\ drag = DragInit
    /\ prog = ProgInit(config)
    /\ emitted = <<>>
    /\ thrown = "none"
    /\ gestures = 0
    /\ button = "up"
    /\ gd = GdIdle
    /\ sn = SnIdle

\* the call get_all_dependent_tasks(task_id)
GdCall(task_id) ==
    /\ gd.pc = "idle"
    /\ gd' = [gd EXCEPT !.pc = "running", !.task_id = task_id,
                        !.to_process = <<task_id>>]
    /\ UNCHANGED <<ganttVars, sn>>

\* one pass of the while loop
GdPass ==
    /\ gd.pc = "running"
    /\ gd.to_process # <<>>
    /\ gd.passes < MaxPasses
    /\ LET deps == DepsOf(dependency_map, gd.to_process)
       IN  gd' = [gd EXCEPT !.out = gd.out \o deps,
                            !.to_process = NextToProcess(deps, gd.to_process),
                            !.seen = gd.seen \cup {gd.to_process},
                            !.passes = gd.passes + 1]
    /\ UNCHANGED <<ganttVars, sn>>

\* the loop ends: return out.filter(Boolean)
GdReturn ==
    /\ gd.pc = "running"
    /\ gd.to_process = <<>>
    /\ gd' = [gd EXCEPT !.pc = "done",
                        !.result = FilterOut(gd.out, {Undefined})]
    /\ UNCHANGED <<ganttVars, sn>>

NextDeps ==
    \/ \E task_id \in Ids : GdCall(task_id)
    \/ GdPass
    \/ GdReturn

SpecDeps == InitDeps /\ [][NextDeps]_vars

(***************************************************************************)
(* Gantt.update_task                                                       *)
(***************************************************************************)
\* Object.assign(task, new_details)
assign(task, new_details) ==
    [f \in DOMAIN task |->
        IF f \in DOMAIN new_details THEN new_details[f] ELSE task[f]]

\* Bar.refresh of bar b: prepare_values on the bar's own task, then draw;
\* the action_completed flag of the Bar object is kept
bar_refresh(g, b) ==
    LET tb == g.bars[b].task
        t == prepare_values(g.tasks[tb], config)
        drawn == NewBar(tb, t, gantt_start, config, options)
    IN  [g EXCEPT !.tasks[tb] = t,
                  !.bars[b] = [drawn EXCEPT !.action_completed =
                                                g.bars[b].action_completed,
                                            !.timers = g.bars[b].timers]]

\* Gantt.update_task(id, new_details)
update_task(g, id, new_details) ==
    LET i == get_task(g.tasks, id)
    IN  IF i = 0 THEN g
        ELSE LET b == BarAt(g.bars, g.tasks[i]._index)
                 g1 == [g EXCEPT !.tasks[i] = assign(g.tasks[i], new_details)]
             IN  \* bar is undefined: bar.refresh() throws
                 IF b = 0 THEN [g1 EXCEPT !.thrown = "TypeError"]
                 \* prepare_values has set _start and _end when
                 \* compute_duration raises
                 ELSE IF DurationThrows(Dated(g1.tasks[i]), config)
                 THEN [g1 EXCEPT !.tasks[i] = Dated(g1.tasks[i]),
                                 !.thrown = "Error"]
                 ELSE bar_refresh(g1, b)

\* A has no start and is left out of the working set
FilteredTasks ==
    << RawTask("A", NoDate, 3, NoDuration, 50, <<>>),
       RawTask("B", 1, 3, NoDuration, 50, <<>>),
       RawTask("C", 2, 4, NoDuration, 50, <<>>) >>

\* the inputs of the charts update_task is called on
UpdateInputs == {ChainTasks, OutOfOrderTasks, FilteredTasks}

\* the new_details of a call
NewDetails ==
    {[progress |-> 80], [start |-> 2], [end |-> 5], [start |-> 2, end |-> 5]}

InitUpdate ==
    /\ \E in \in UpdateInputs : Constructed(in, LoadOptions, DayMode)
    /\ gd = GdIdle
    /\ sn = SnIdle

UpdateTask(id, new_details) ==
    /\ LET g == update_task(G, id, new_details)
       IN  /\ tasks' = g.tasks
           /\ bars' = g.bars
           /\ thrown' = g.thrown
    /\ emitted' = <<>>
    /\ UNCHANGED <<options, mode, input, arrows, dependency_map, gantt_start,
                   gantt_end, config, bar_being_dragged, drag, prog, gestures,
                   button, gd, sn>>

NextUpdate ==
    \E id \in Ids \cup {UnknownId} : \E new_details \in NewDetails :
        UpdateTask(id, new_details)

SpecUpdate == InitUpdate /\ [][NextUpdate]_vars

(***************************************************************************)
(* Bar.compute_duration on the dates update_task gives a task              *)
(***************************************************************************)
\* a chart of one task, with nothing, the weekend or one date ignored
InitDuration ==
    /\ \E ignore \in {NoIgnore, Weekend, Holiday} :
            Constructed(<<RawTask("A", 0, 1, NoDuration, 50, <<>>)>>,
                        Options(FALSE, NoDuration, ignore), DayMode)
    /\ gd = GdIdle
    /\ sn = SnIdle

\* update_task('A', {start, end}): the bar is refreshed and its duration
\* computed again
NextDuration ==
    \E start \in 0..MaxStart : \E end \in start..(start + MaxSpan) :
        UpdateTask("A", [start |-> start, end |-> end])

SpecDuration == InitDuration /\ [][NextDuration]_vars

(***************************************************************************)
(* Double clicks after gestures                                            *)
(***************************************************************************)
\* the dblclick listener of the bar's group (setup_click_event)
DblClick(b) ==
    /\ thrown # "hang"
    /\ b \in DOMAIN bars
    /\ emitted' = IF bars[b].action_completed THEN <<>>
                  ELSE <<DoubleClick(tasks[bars[b].task].id)>>
    /\ thrown' = "none"
    /\ UNCHANGED <<options, mode, input, tasks, bars, arrows, dependency_map,
                   gantt_start, gantt_end, config, bar_being_dragged, drag,
                   prog, gestures, button, gd, sn>>

\* a chart of one task
InitSettle ==
    /\ Constructed(<<RawTask("A", 1, 3, NoDuration, 50, <<>>)>>,
                   Options(FALSE, NoDuration, NoIgnore), DayMode)
    /\ gd = GdIdle
    /\ sn = SnIdle

\* the pointer positions of the gestures
SettleXs == {k * Px : k \in MinSettleX..MaxSettleX}

NextSettle ==
    \/ \E b \in 1..MaxTasks : \E mx \in SettleXs :
          MouseDownWithin(MaxSettleGestures, "bar", b, mx)
    \/ \E mx \in SettleXs : MouseMove(mx, FALSE)
    \/ MouseUp
    \/ \E b \in 1..MaxTasks : SettleTimeout(b)
    \/ \E b \in 1..MaxTasks : DblClick(b)

SpecSettle == InitSettle /\ [][NextSettle]_vars

(***************************************************************************)
(* Pointer-downs that follow each other on a one-task chart                *)
(***************************************************************************)
\* the pointer-down of another button while one is held: the listeners do
\* not look at the button of the event
SecondMouseDown(target, b, mx) ==
    /\ button = "down"
    /\ button' = "down"
    /\ MouseDownOn(MaxSettleGestures, target, b, mx)

NextModes ==
    \/ \E target \in Targets : \E b \in 1..MaxTasks : \E mx \in SettleXs :
          MouseDownWithin(MaxSettleGestures, target, b, mx)
    \/ \E target \in Targets : \E b \in 1..MaxTasks : \E mx \in SettleXs :
          SecondMouseDown(target, b, mx)
    \/ \E mx \in SettleXs : MouseMove(mx, FALSE)
    \/ MouseUp
    \/ MouseUpOutside

SpecModes == InitSettle /\ [][NextModes]_vars

(***************************************************************************)
(* A chart whose view mode changes                                         *)
(***************************************************************************)
\* C, which depends on B, after a task that is left out
FilteredChainTasks ==
    << RawTask("A", NoDate, 3, NoDuration, 50, <<>>),
       RawTask("B", 1, 3, NoDuration, 50, <<>>),
       RawTask("C", 3, 5, NoDuration, 50, <<"B">>) >>

\* options.column_width is 6 pixels
WideOptions ==
    [Options(FALSE, NoDuration, NoIgnore) EXCEPT !.column_width = 6 * Px]

ViewSetups ==
    { [tasks |-> ChainTasks, options |-> Options(FALSE, NoDuration, NoIgnore)],
      [tasks |-> WeekendTasks, options |-> Options(FALSE, NoDuration, Weekend)],
      [tasks |-> FilteredChainTasks,
       options |-> Options(FALSE, NoDuration, NoIgnore)],
      [tasks |-> ChainTasks, options |-> WideOptions],
      [tasks |-> ChainTasks,
       options |-> Options(FALSE, NoDuration, Throwing)] }

\* a view mode that is not among options.view_modes
FourDayMode ==
    [name |-> "Four Days", padding |-> Days(4), step |-> Days(4),
     column_width |-> 4 * Px, snap_at |-> NoDuration]

ModeArgs ==
    {NoMode, ModeName(""), ModeName("Month"), ModeObject(FourDayMode)}
        \cup {ModeName(ViewModes[k].name) : k \in DOMAIN ViewModes}

InitView ==
    /\ \E setup \in ViewSetups : Constructed(setup.tasks, setup.options, DayMode)
    /\ gd = GdIdle
    /\ sn = SnIdle

\* new_details of update_task in a chart whose view mode changes
ViewDetails == {[progress |-> 80], [end |-> 9]}

NextView ==
    \/ \E arg \in ModeArgs : ChangeViewMode(arg)
    \* the chart is loaded again with the tasks it was built from
    \/ refresh(input)
    \/ \E id \in Ids : \E new_details \in ViewDetails :
            UpdateTask(id, new_details)

SpecView == InitView /\ [][NextView]_vars

(***************************************************************************)
(* A gesture with the public methods called in between                     *)
(***************************************************************************)
\* one task that ends before an ignored weekend
InterleaveTasks == << RawTask("A", 2, 4, NoDuration, 50, <<>>) >>

InitInterleave ==
    /\ Constructed(InterleaveTasks, Options(FALSE, NoDuration, Weekend), DayMode)
    /\ gd = GdIdle
    /\ sn = SnIdle

\* a bar the gesture captured at pointer-down is no longer the bar of the
\* chart: render() has built new Bar objects, which carry no ox and owidth
Detached ==
    \E k \in DOMAIN drag.bars :
        /\ drag.bars[k] # 0
        /\ \/ drag.bars[k] \notin DOMAIN bars
           \/ bars[drag.bars[k]].owidth = 0

\* the view modes the chart is switched to during a gesture
InterleaveArgs == {ModeName("Day"), ModeName("Two Days")}

\* pointer moves and an svg pointer-up on detached bars act on objects that
\* are no longer in the chart and are left out
AttachedMouseMove(mx) == ~Detached /\ MouseMove(mx, FALSE)
AttachedMouseUp == ~Detached /\ MouseUp

\* refresh() and change_view_mode() are public methods that test no flag
\* of the gesture
NextInterleave ==
    \/ \E target \in {"bar", "left", "right"} : \E b \in 1..MaxTasks :
          \E mx \in SettleXs :
              MouseDownWithin(MaxSettleGestures, target, b, mx)
    \/ \E mx \in SettleXs : AttachedMouseMove(mx)
    \/ AttachedMouseUp
    \/ MouseUpOutside
    \/ \E arg \in InterleaveArgs : ChangeViewMode(arg)
    \/ refresh(input)

SpecInterleave == InitInterleave /\ [][NextInterleave]_vars

(***************************************************************************)
(* Clicks on the grid between gestures                                     *)
(***************************************************************************)
\* A click on the grid: the press reaches no mousedown listener (they are
\* delegated to '.bar-wrapper, .handle' and '.handle.progress'), the release
\* reaches the mouseup listeners of the svg and of the document.
GridClick ==
    /\ button = "up"
    /\ button' = "up"
    /\ gestures < MaxSettleGestures
    /\ gestures' = gestures + 1
    /\ SvgMouseUp

NextClick ==
    \/ \E b \in 1..MaxTasks : \E mx \in SettleXs :
          MouseDownWithin(MaxSettleGestures, "bar", b, mx)
    \/ \E mx \in SettleXs : MouseMove(mx, FALSE)
    \/ MouseUp
    \/ \E b \in 1..MaxTasks : SettleTimeout(b)
    \/ GridClick

SpecClick == InitSettle /\ [][NextClick]_vars

(***************************************************************************)
(* Gestures on a chart that is read-only                                   *)
(***************************************************************************)
\* options.readonly or options.readonly_dates is set
ReadonlySetups ==
    { [tasks |-> ChainTasks,
       options |-> [Options(TRUE, NoDuration, NoIgnore)
                        EXCEPT !.readonly = TRUE]],
      [tasks |-> WeekendTasks,
       options |-> [Options(TRUE, NoDuration, Weekend)
                        EXCEPT !.readonly_dates = TRUE]],
      [tasks |-> IgnoredDayTasks,
       options |-> [Options(FALSE, Hours(12), Weekend)
                        EXCEPT !.readonly_dates = TRUE]] }

InitReadonly ==
    /\ \E setup \in ReadonlySetups :
            Constructed(setup.tasks, setup.options, DayMode)
    /\ gd = GdIdle
    /\ sn = SnIdle

SpecReadonly == InitReadonly /\ [][Next]_vars

(***************************************************************************)
(* Properties of a gesture                                                 *)
(***************************************************************************)
\* the bars of the affected set of the gesture
Affected == Range(drag.bars) \ {0}

\* the bars of the dependencies of bar b
Predecessors(b) ==
    {get_bar(bars, tasks, d) : d \in Range(tasks[bars[b].task].dependencies)} \ {0}

\* the grabbed bar
Parent == get_bar(bars, tasks, drag.parent_bar_id)

\* a step is a frame of the gesture: a pointer-move while a mode flag is set
Frame ==
    /\ action_in_progress
    /\ drag' = drag
    /\ button' = button
    /\ DOMAIN bars' = DOMAIN bars
    /\ \A b \in DOMAIN bars : bars'[b].action_completed = bars[b].action_completed

\* the x the frame asks for bar b
Target(b) == bars'[b].ox + bars'[b].finaldx

MovesX == drag.is_dragging \/ drag.is_resizing_left

DateChanged(b, notifications) ==
    \E k \in DOMAIN notifications :
        /\ notifications[k].event = "date_change"
        /\ notifications[k].id = tasks[bars[b].task].id

\* the dates of the geometry bar b had at pointer-down
DatesAtPointerDown(b) ==
    compute_start_end_date([bar_x |-> bars[b].ox, bar_w |-> bars[b].owidth],
                           gantt_start, config)

\* C3: in a move or resize gesture no date_change is emitted between
\* pointer-down and pointer-up, and at pointer-up date_change is emitted
\* for a bar exactly when its dates differ from those before the gesture.
C3_CommitAtPointerUp ==
    [][ /\ (action_in_progress /\ button = "down" /\ button' = "down")
            => \A b \in DOMAIN bars : ~DateChanged(b, emitted')
        /\ (action_in_progress /\ button = "down" /\ button' = "up")
            => \A b \in Affected :
                    DateChanged(b, emitted')
                        <=> \/ tasks'[bars[b].task]._start
                                # DatesAtPointerDown(b).new_start_date
                            \/ tasks'[bars[b].task]._end
                                # DatesAtPointerDown(b).new_end_date ]_vars

\* no mode flag is set and no bar is held
Idle ==
    /\ ~action_in_progress
    /\ ~prog.is_resizing
    /\ bar_being_dragged = "null"

\* the geometry of the bars and of their progress rectangles
Geometry ==
    [b \in DOMAIN bars |->
        <<bars[b].bar_x, bars[b].bar_w, bars[b].prog_x, bars[b].prog_w>>]

\* C4: after a pointer-up anywhere in the document the machine is Idle,
\* and while the button stays up no step changes bar or progress geometry.
C4_PointerUpEndsGesture ==
    [][ button' = "up" =>
            /\ Idle'
            /\ button = "up" => Geometry' = Geometry ]_vars

\* C6: in every reachable state the right end of each bar's progress
\* rectangle is not inside an ignored pixel interval.
C6_ProgressEndNotIgnored ==
    \A b \in DOMAIN bars :
        bars[b].prog_w # NaN =>
            \A i \in DOMAIN config.ignored_positions :
                LET val == config.ignored_positions[i]
                    end == bars[b].prog_x + bars[b].prog_w
                IN  ~(end > val /\ end < val + config.column_width)

(***************************************************************************)
(* Properties of the snap function                                         *)
(***************************************************************************)
\* C5: get_snap_position is idempotent: with s = get_snap_position(dx, ox),
\* get_snap_position(s, ox) = s.
C5_SnapIdempotent == sn.pc = "twice" => sn.again = sn.s

\* the snap function was applied to its own result, and the first
\* application had moved the position over ignored columns
C5_SnappedTwice ==
    /\ sn.pc = "twice"
    /\ sn.s # sn.dx
    /\ sn.s # SnapDelta(sn.dx, SnapGrid(config, unit_length(options, mode)))

(***************************************************************************)
(* Properties of the dependency closure                                    *)
(***************************************************************************)
\* C7: get_all_dependent_tasks(id) returns each transitive dependent of id
\* at most once.
C7_EachDependentOnce ==
    gd.pc = "done" => \A id \in Ids : Count(gd.result, id) <= 1

\* C8: get_all_dependent_tasks terminates for every dependency map.  The
\* to_process of the next pass is a function of the current to_process
\* alone, so the loop ends exactly when no pass starts with a to_process
\* that an earlier pass of the call started with.
C8_Terminates ==
    gd.pc = "running" => gd.to_process \notin gd.seen

(***************************************************************************)
(* Properties of loading                                                   *)
(***************************************************************************)
\* the end a task states, by its end or by its duration
StatedEnd(t) ==
    IF t.end # NoDate THEN t.end
    ELSE add(t.start, parse_duration(t.duration).duration,
             parse_duration(t.duration).scale)

HasDates(t) ==
    /\ t.start # NoDate
    /\ t.end # NoDate \/ t.duration # NoDuration

\* a task with a start and an end that is not before the start and not
\* more than ten years after it
ValidTask(t) ==
    /\ HasDates(t)
    /\ StatedEnd(t) >= t.start
    /\ StatedEnd(t) - t.start <= 10 * DaysPerYear

\* C9: loading or refreshing never fails on an invalid task: a task with
\* no start, or with neither end nor duration, is left out of the working
\* set, and every valid task of the input is kept, in input order.
C9_InvalidTasksLeftOut ==
    /\ thrown = "none"
    /\ \A i \in DOMAIN tasks : HasDates(tasks[i])
    /\ [i \in DOMAIN tasks |-> tasks[i]._index + 1]
            = SelectSeq([k \in DOMAIN input |-> k], LAMBDA k : ValidTask(input[k]))

\* C10: after load or refresh, including bar construction, every task of
\* the working set has _end > _start.
C10_EndAfterStart ==
    \A i \in DOMAIN tasks : tasks[i]._end > tasks[i]._start

(***************************************************************************)
(* Properties of the progress value                                        *)
(***************************************************************************)
\* C11: in every reachable state each task's progress is a number in
\* [0,100].
C11_ProgressInRange ==
    \A i \in DOMAIN tasks : tasks[i].progress \in 0..100

(***************************************************************************)
(* Properties of the dependency map                                        *)
(***************************************************************************)
\* the input task the working-set task at position i was made from
InputOf(i) == input[tasks[i]._index + 1]

\* the dependency list a task states: its array, or the pieces of its
\* string, split at the commas and trimmed
StatedDependencies(t) ==
    CASE t.typeof_dependencies = "string" ->
            LET pieces == split(t.dependencies, ",")
            IN  [k \in DOMAIN pieces |-> StringOf(trim(pieces[k]))]
      [] t.typeof_dependencies = "undefined" -> <<>>
      [] OTHER -> t.dependencies

UpdatesOnly(id, new_details) ==
    LET i == get_task(tasks, id)
        b == get_bar(bars, tasks, id)
    IN  IF i = 0 THEN tasks' = tasks /\ bars' = bars /\ thrown' = "none"
        ELSE /\ thrown' = "none"
             /\ \A f \in DOMAIN new_details : tasks'[i][f] = new_details[f]
             /\ bars'[b].bar_x = compute_x(tasks'[i], gantt_start, config)
             /\ bars'[b].bar_w =
                    config.column_width * compute_duration(tasks'[i], config).duration
             /\ \A j \in DOMAIN tasks : j # i => tasks'[j] = tasks[j]
             /\ \A c \in DOMAIN bars : c # b => bars'[c] = bars[c]

\* C13: update_task(id, partial) for an id of the working set sets each
\* field of partial on that task and redraws that task's own bar, and no
\* other task or bar is changed; for an id that is not in the working set
\* nothing changes.
C13_UpdatesOnlyThatTask ==
    [][ \A id \in Ids \cup {UnknownId} : \A new_details \in NewDetails :
            UpdateTask(id, new_details) => UpdatesOnly(id, new_details) ]_vars

(***************************************************************************)
(* Properties of the bar geometry                                          *)
(***************************************************************************)
\* the number of calendar days of [_start, _end)
DaysOf(t) == IF t._end > t._start THEN t._end - t._start ELSE 0

\* C14: for every bar after render, x = (diff(task._start, chart start,
\* unit) / step) * column_width, width = column_width * (the calendar days
\* of [_start,_end) converted to the unit, divided by step), and
\* y = header_height + padding/2 + _index * (bar_height + padding); a
\* task from day 1 to day 5 with unit day, step 1 and column_width 45 has
\* width 180.
C14_BarGeometry ==
    \A b \in DOMAIN bars :
        LET t == tasks[bars[b].task]
        IN  /\ bars[b].bar_x =
                    (diff(t._start, gantt_start, config.unit) * config.column_width)
                        \div config.step
            /\ bars[b].bar_w =
                    config.column_width
                        * (convert_scales([n |-> DaysOf(t), u |-> "d"], config.unit)
                                \div config.step)
            /\ bars[b].y =
                    config.header_height + options.padding \div 2
                        + t._index * (options.bar_height + options.padding)
            /\ (t.start = 1 /\ t.end = 5 /\ config.unit = "day"
                    /\ config.step = 1 /\ config.column_width = 45 * Px)
                    => bars[b].bar_w = 180 * Px

\* the bar of a task from day 1 to day 5 is drawn, in a chart whose input
\* had a task before it that was left out
C14_FourDayBar ==
    \E b \in DOMAIN bars :
        LET t == tasks[bars[b].task]
        IN  /\ t.start = 1 /\ t.end = 5
            /\ bars[b].bar_w = 180 * Px
            /\ t._index > bars[b].task - 1
            /\ config.column_width = 45 * Px

(***************************************************************************)
(* Properties of compute_duration                                          *)
(***************************************************************************)
\* the days of [_start, _end) of task t
Walked(t) == t._start..(t._end - 1)

\* day d is in ignored_dates or matched by the ignore predicate
Ignored(d) ==
    \/ d \in config.ignored_dates
    \/ config.weekend /\ DayOfWeek(d) \in {0, 6}

\* C15: actual_duration is the number of days of [_start,_end) that are
\* not ignored and ignored_duration the number that are, so their sum is
\* the number of days walked; a 10-day span containing 2 weekend days
\* gives 8 and 2.
C15_DurationCountsDays ==
    \A i \in DOMAIN tasks :
        LET t == tasks[i]
            ignored == {d \in Walked(t) : Ignored(d)}
        IN  /\ t.actual_duration = Cardinality(Walked(t) \ ignored)
            /\ t.ignored_duration = Cardinality(ignored)
            /\ t.actual_duration + t.ignored_duration = Cardinality(Walked(t))
            /\ (Cardinality(Walked(t)) = 10 /\ config.weekend
                    /\ Cardinality(ignored) = 2)
                    => t.actual_duration = 8 /\ t.ignored_duration = 2

\* a task of 10 days that contain 2 weekend days was measured
C15_TenDaysTwoIgnored ==
    \E i \in DOMAIN tasks :
        /\ config.weekend
        /\ tasks[i]._end - tasks[i]._start = 10
        /\ tasks[i].actual_duration = 8
        /\ tasks[i].ignored_duration = 2

OwnArrow(d, i) == NewArrow(bars, get_task(tasks, d), i)

\* C18: after load or refresh there is one arrow for each (task,
\* dependency id) pair whose id names a task of the working set, running
\* from that predecessor's own bar to the dependent's own bar; an id that
\* names no task produces no arrow and the task stays in the working set.
C18_ArrowsJoinOwnBars ==
    /\ thrown = "none"
    /\ \A i \in DOMAIN tasks : \A d \in Range(tasks[i].dependencies) :
            Cardinality({a \in DOMAIN arrows : arrows[a] = OwnArrow(d, i)})
                = IF get_task(tasks, d) # 0 THEN 1 ELSE 0
    /\ \A a \in DOMAIN arrows :
            \E i \in DOMAIN tasks : \E d \in Range(tasks[i].dependencies) :
                get_task(tasks, d) # 0 /\ arrows[a] = OwnArrow(d, i)
    /\ \A k \in DOMAIN input :
            (ValidTask(input[k]) /\ UnknownId \in Range(input[k].dependencies))
                => \E i \in DOMAIN tasks : tasks[i]._index = k - 1

(***************************************************************************)
(* Properties of the double click                                          *)
(***************************************************************************)
\* a double_click notification is among the notifications
HasDoubleClick(notifications) ==
    \E k \in DOMAIN notifications : notifications[k].event = "double_click"

\* C19: after any sequence of gestures, for one second after the latest
\* gesture on a bar commits (the timer that commit started has not fired:
\* the timers fire in the order they were started), a dblclick on that bar
\* emits no double_click notification.
C19_NoDoubleClickWhileSettling ==
    [][\A b \in DOMAIN bars :
            (DblClick(b) /\ bars[b].timers > 0) => ~HasDoubleClick(emitted')]_vars

(***************************************************************************)
(* Properties of the progress notification                                 *)
(***************************************************************************)
\* a progress_change notification for the task of bar b is among the
\* notifications
ProgressChanged(b, notifications) ==
    \E k \in DOMAIN notifications :
        /\ notifications[k].event = "progress_change"
        /\ notifications[k].id = tasks[bars[b].task].id

\* C20: when a progress-resize gesture ends at pointer-up, the task's
\* progress is recomputed from the final width of the progress rectangle,
\* and progress_change is emitted if and only if the recomputed progress
\* differs from the progress before the gesture.
C20_ProgressChangeIffChanged ==
    [][(MouseUp /\ prog.is_resizing /\ prog.bar # 0) =>
            LET b == prog.bar
                t == bars[b].task
                recomputed == compute_progress_value(bars[b], config)
            IN  /\ tasks'[t].progress = recomputed
                /\ ProgressChanged(b, emitted')
                        <=> recomputed # tasks[t].progress]_vars

(***************************************************************************)
(* Properties of the ids                                                   *)
(***************************************************************************)
\* C21: after load or refresh the tasks of the working set have pairwise
\* distinct ids, including ids that were normalised (spaces replaced by
\* underscores) or generated because the input had none.
C21_DistinctIds ==
    \A i, j \in DOMAIN tasks : i # j => tasks[i].id # tasks[j].id

(***************************************************************************)
(* Properties of change_view_mode                                          *)
(***************************************************************************)
\* a view_change notification is among the notifications
HasViewChange(notifications) ==
    \E k \in DOMAIN notifications : notifications[k].event = "view_change"

\* the call raises an error, emits no view_change and leaves the view mode,
\* the scale, the bars and the arrows as they were
RaisesAndKeeps ==
    /\ thrown' = "Error"
    /\ ~HasViewChange(emitted')
    /\ options'.view_mode = options.view_mode
    /\ mode' = mode
    /\ config'.unit = config.unit
    /\ config'.step = config.step
    /\ config'.column_width = config.column_width
    /\ bars' = bars
    /\ arrows' = arrows

\* the names given to change_view_mode that name no mode of
\* options.view_modes
UnresolvedNames ==
    {arg \in ModeArgs :
        arg.type = "string" /\ FindMode(options.view_modes, arg.name) = 0}

Resolved(arg) ==
    LET viewMode == ViewModeOf(arg, options)
    IN  IF viewMode.type = "string"
        THEN options.view_modes[FindMode(options.view_modes, viewMode.name)]
        ELSE viewMode.mode

\* after the call the view mode is the resolved one, the bars and the
\* arrows are built anew for the current tasks and one view_change that
\* carries the resolved mode is emitted
SwitchedTo(resolved) ==
    /\ options'.view_mode = resolved.name
    /\ mode' = resolved
    /\ config'.step = parse_duration(resolved.step).duration
    /\ config'.unit = parse_duration(resolved.step).scale
    /\ bars' = [i \in DOMAIN tasks' |->
                    NewBar(i, tasks'[i], gantt_start', config', options')]
    /\ Len(bars') = Len(tasks)
    /\ arrows' = make_arrows(tasks', bars')
    /\ emitted' = <<ViewChange(resolved)>>

FailOpen == [config EXCEPT !.throws = {}]

\* C24: if the ignore predicate throws for a day, that day is treated as
\* not ignored and the render pass and the duration computation complete:
\* the ignored positions are those of the days that are ignored, one bar
\* per task is drawn for the current configuration, and every task has
\* the duration of its days that are not ignored.
C24_FailOpen ==
    config.throws # {} =>
        /\ config.ignored_positions
                = make_grid_highlights(gantt_start, gantt_end, FailOpen)
        /\ bars = [i \in DOMAIN tasks |->
                    NewBar(i, Dated(tasks[i]), gantt_start, FailOpen, options)]
        /\ \A i \in DOMAIN tasks :
                tasks[i].actual_duration
                    = compute_duration(Dated(tasks[i]), FailOpen).actual_duration

\* C25: for every task t of the working set after load or refresh,
\* t._index is t's position in the working set, so bars[t._index] is t's
\* own bar, also when an earlier task of the input was rejected.
C25_IndexIsPosition ==
    \A i \in DOMAIN tasks :
        /\ tasks[i]._index = i - 1
        /\ tasks[i]._index + 1 \in DOMAIN bars
        /\ bars[tasks[i]._index + 1].task = i

Grid == SnapGrid(config, unit_length(options, mode))

\* C27: get_snap_position rounds the raw delta dx to the nearest multiple
\* of the snap grid g: with no ignored positions the result is a multiple
\* of g that differs from dx by at most g/2.
C27_RoundsToNearest ==
    (sn.pc # "idle" /\ config.ignored_positions = <<>>) =>
        /\ sn.s % Grid = 0
        /\ 2 * Abs(sn.s - sn.dx) <= Grid

\* drn: the direction of travel get_snap_position takes for the delta dx
Drn(dx) == IF SnapDelta(dx, Grid) > 0 THEN 1 ELSE -1

\* C28: for every dx and ox, the position ox + get_snap_position(dx, ox)
\* does not fall in an ignored interval for the direction of travel.
C28_SnapsOutOfIgnored ==
    sn.pc # "idle" =>
        get_ignored_region(config, sn.ox + sn.s, Drn(sn.dx)) = <<>>

\* the loop was entered on the boundary of an ignored column
OnBoundary ==
    \E k \in DOMAIN config.ignored_positions :
        \/ sn.entered = config.ignored_positions[k]
        \/ sn.entered = config.ignored_positions[k] + config.column_width

\* C29: get_snap_position terminates for every dx, ox and finite
\* ignored_positions, also when the snapped position lies exactly on the
\* boundary of an ignored column: a call that has entered the loop leaves
\* it.
C29_SnapTerminates == (sn.pc = "loop") ~> (sn.pc = "done")

\* a call that entered the loop on a boundary has left it after two passes
C29_LeftFromBoundary ==
    /\ sn.pc = "done"
    /\ sn.passes = 2
    /\ OnBoundary

\* the position the passes end at is the one get_snap_position returns
SnapLoopAgrees ==
    [][SnapReturn =>
        sn'.s = get_snap_position(config, unit_length(options, mode),
                                  sn.dx, sn.ox)]_vars

\* the ignored calendar days from chart start to chart end
IgnoredDays == {d \in gantt_start..gantt_end : IsIgnored(d, config)}

\* C30: after every render, for every view mode, each entry of
\* config.ignored_positions is a non-negative integer multiple of
\* column_width from the chart start, and there is exactly one entry per
\* ignored calendar day between chart start and chart end.
C30_IgnoredPositionsAligned ==
    config.throws = {} =>
        /\ \A k \in DOMAIN config.ignored_positions :
                /\ config.ignored_positions[k] >= 0
                /\ config.ignored_positions[k] % config.column_width = 0
        /\ Len(config.ignored_positions) = Cardinality(IgnoredDays)

\* no bar's x or width changes in the step
SameGeometry ==
    \A b \in DOMAIN bars :
        /\ bars'[b].bar_x = bars[b].bar_x
        /\ bars'[b].bar_w = bars[b].bar_w

\* C31: after pointer-down on a bar or handle, while the pointer has moved
\* no more than 10 px from the pointer-down position the gesture stays
\* pending: bar_being_dragged stays false and no bar's x or width changes;
\* bar_being_dragged becomes true only on a move of more than 10 px.
C31_PendingWithinJitter ==
    [][\A mx \in MouseXs : \A over_bar \in BOOLEAN :
            (bar_being_dragged = "false" /\ MouseMove(mx, over_bar)) =>
                /\ bar_being_dragged' = "true" => Abs(mx - drag.pos) > 10 * Px
                /\ Abs(mx - drag.pos) <= 10 * Px =>
                        (bar_being_dragged' = "false" /\ SameGeometry)]_vars

\* the modes of a gesture that are active
ActiveModes ==
    {m \in {"move", "resize-left", "resize-right", "resize-progress"} :
        CASE m = "move" -> drag.is_dragging
          [] m = "resize-left" -> drag.is_resizing_left
          [] m = "resize-right" -> drag.is_resizing_right
          [] m = "resize-progress" -> prog.is_resizing}

\* C32: in every reachable state at most one of the modes move,
\* resize-left, resize-right and resize-progress is active; a pointer-down
\* that arrives while a gesture is still active does not start a second
\* one.
C32_OneModeActive == Cardinality(ActiveModes) <= 1

\* C33: between the pointer-down and the pointer-up of a gesture no step
\* changes config.ignored_positions or dependency_map, and the bars captured
\* at pointer-down stay the bars of the chart (they keep the origin ox and
\* owidth they were given at pointer-down): nothing re-renders mid-gesture.
C33_StableDuringGesture ==
    [][(button = "down" /\ button' = "down") =>
            /\ config'.ignored_positions = config.ignored_positions
            /\ dependency_map' = dependency_map
            /\ \A k \in DOMAIN drag.bars :
                   drag.bars[k] \in DOMAIN bars =>
                       /\ drag.bars[k] \in DOMAIN bars'
                       /\ bars'[drag.bars[k]].ox = bars[drag.bars[k]].ox
                       /\ bars'[drag.bars[k]].owidth
                               = bars[drag.bars[k]].owidth]_vars

\* the intervals the progress-resize listener would skip over if they were
\* taken from the chart as it is now
CurrentRanges ==
    [i \in DOMAIN config.ignored_positions |->
        <<config.ignored_positions[i],
          config.ignored_positions[i] + config.column_width>>]

\* C34: after every re-render the ignored intervals that the progress-resize
\* listener skips over are those of the current config.ignored_positions and
\* config.column_width.
C34_RangesFollowRender == prog.range_positions = CurrentRanges

\* C35: whenever a bar's x or width changes, in a drag or resize frame or
\* through update_task, every arrow that has the bar as predecessor or
\* successor is recomputed in the same step: the path of every arrow is the
\* one its two bars give now.
C35_ArrowsFollowBars ==
    \A a \in DOMAIN arrows :
        (arrows[a].from_task # 0 /\ arrows[a].to_task # 0) =>
            arrows[a].path = route(bars, arrows[a].from_task, arrows[a].to_task)

\* the task of bar b lists a dependency id that names no bar
HasUnknownDependency(b) ==
    \E d \in Range(tasks[bars[b].task].dependencies) :
        get_bar(bars, tasks, d) = 0

\* C36: a gesture on a bar whose task lists a dependency id that names no
\* bar is not interrupted: while such a bar is among the bars of the gesture
\* in progress, no step raises an error.
C36_UnknownIdSkipped ==
    [][(/\ action_in_progress
        /\ \E k \in DOMAIN drag.bars :
              drag.bars[k] # 0 /\ HasUnknownDependency(drag.bars[k]))
            => thrown' # "TypeError"]_vars

\* the bars of the gesture that are the bar the pointer went down on
Grabbed ==
    {b \in Affected : tasks[bars[b].task].id = drag.parent_bar_id}

\* C37: in every frame of a resize-left gesture the resized bar's right
\* edge (x + width) is its right edge at pointer-down and its width is
\* greater than 0, also when the pointer passes the bar's right edge.
C37_LeftResizeKeepsRightEdge ==
    drag.is_resizing_left =>
        \A b \in Grabbed :
            /\ bars[b].bar_x + bars[b].bar_w = bars[b].ox + bars[b].owidth
            /\ bars[b].bar_w > 0

C39_NoCommitWithoutGesture ==
    [][(button = "up" /\ button' = "up") =>
            /\ \A k \in DOMAIN emitted' : emitted'[k].event # "date_change"
            /\ \A b \in DOMAIN bars :
                    /\ bars'[b].action_completed => bars[b].action_completed
                    /\ bars'[b].timers <= bars[b].timers]_vars

\* C40: move, resize-left and resize-right gestures never change a task's
\* progress value and emit no progress_change: no step taken while such a
\* gesture is in progress does.
C40_MoveKeepsProgress ==
    [][action_in_progress =>
            /\ \A i \in DOMAIN tasks : tasks'[i].progress = tasks[i].progress
            /\ \A k \in DOMAIN emitted' :
                    emitted'[k].event # "progress_change"]_vars

====
